---- MODULE Spec2Model ----
(***************************************************************************)
(* GeoPhoto: the ingestion-and-classification engine.                      *)
(*                                                                         *)
(*   - the catalog (photos, directories) of modules/Database.js,           *)
(*   - the directory walker, the temporal-proximity locator and the scan   *)
(*     pass of modules/PhotoFilesManager.js,                               *)
(*   - the scan entry points of main.js, run by one JavaScript event loop, *)
(*   - the tag tables of modules/Database.js, the Tag classes, the tag     *)
(*     handlers and the event matcher ('match-tags-for-photo') of main.js. *)
(*                                                                         *)
(* Values.  SQL NULL / JavaScript null is NULL (-1); every time, latitude, *)
(* longitude and radius of the model is >= 0.  A capture time is a Date    *)
(* (or the ISO string it is stored as), represented by its epoch           *)
(* milliseconds: it is truthy whenever it is not null.  A coordinate is a  *)
(* number: it is falsy when it is null or 0.  A relative directory path is *)
(* the sequence of its names (<<>> is '', the scan root).                  *)
(***************************************************************************)
EXTENDS Integers, Sequences, FiniteSets, TLC

NULL == 0 - 1

\* JavaScript truthiness of a number-or-null ( !x is ~Truthy(x) ).
Truthy(x) == x # NULL /\ x # 0

\* JavaScript  x || null  on a number-or-null.
OrNull(x) == IF Truthy(x) THEN x ELSE NULL

Abs(x) == IF x < 0 THEN 0 - x ELSE x

SeqToSet(s) == {s[i] : i \in 1..Len(s)}

(***************************************************************************)
(* Bounds of the model.                                                    *)
(***************************************************************************)
\* scanAndProcessDirectory calls started in one behaviour
MaxScans == 3
\* per-file exceptions injected in one behaviour
MaxFaults == 1
\* direct upsertPhoto calls in one behaviour
MaxUpserts == 1

(***************************************************************************)
(* The file tree under the scan root.  Real directories are named by an    *)
(* id; readdirSync(d) lists the entries of d in order; lstatSync of an     *)
(* entry gives its kind.  "up" is a symbolic link in a/ back to the root.  *)
(***************************************************************************)
RealDirs == {"root", "a", "b", "h"}

readdirSync(real) ==
    CASE real = "root" -> << [name |-> "p1.jpg",    kind |-> "file",    to |-> "root"],
                             [name |-> "a",         kind |-> "dir",     to |-> "a"],
                             [name |-> ".cache",    kind |-> "dir",     to |-> "h"],
                             [name |-> "notes.txt", kind |-> "file",    to |-> "root"] >>
      [] real = "a"    -> << [name |-> "up",        kind |-> "symlink", to |-> "root"],
                             [name |-> "p2.jpg",    kind |-> "file",    to |-> "a"],
                             [name |-> "b",         kind |-> "dir",     to |-> "b"] >>
      [] real = "b"    -> << [name |-> "v1.mp4",    kind |-> "file",    to |-> "b"] >>
      [] OTHER         -> << [name |-> "p9.jpg",    kind |-> "file",    to |-> "h"] >>

\* fs.lstatSync(fullPath): the kind of the entry itself (a link is a link).
lstatSync(entry) == entry.kind

\* The extension of a file name (the names of the tree above).
Ext(name) ==
    CASE name \in {"p1.jpg", "p2.jpg", "p9.jpg"} -> "jpg"
      [] name = "v1.mp4"                         -> "mp4"
      [] name = "g1.png"                         -> "png"
      [] name = "g2.gif"                         -> "gif"
      [] name = "g3.bmp"                         -> "bmp"
      [] name = "g4.webp"                        -> "webp"
      [] OTHER                                   -> "txt"

isPhotoExtension(name) == Ext(name) \in {"jpg", "jpeg", "heic", "png", "gif", "bmp", "webp"}

isVideoExtension(name) ==
    Ext(name) \in {"mp4", "mov", "avi", "mkv", "wmv", "flv", "webm", "m4v", "3gp"}

isMediaFile(name) == isPhotoExtension(name) \/ isVideoExtension(name)

\* item.startsWith('.') || item === 'node_modules' || item === '$RECYCLE.BIN'
IsSpecialDir(name) == name \in {".cache", "node_modules", "$RECYCLE.BIN"}

ONE_HOUR_MS == 3600000

\* What exifr.parse finds in a file: p1.jpg carries a capture time and GPS,
\* p2.jpg carries nothing.
Exif(name) ==
    IF name = "p1.jpg" THEN [time |-> 7200000, lat |-> 10, lng |-> 20]
    ELSE [time |-> NULL, lat |-> NULL, lng |-> NULL]

\* getFileModifiedTime: stats.mtime of the file.
getFileModifiedTime(name) ==
    CASE name = "p1.jpg" -> 7200000
      [] name = "p2.jpg" -> 7200000 + 2700000
      [] OTHER           -> 7200000 + 5400000

(***************************************************************************)
(* Temporal-proximity locator (PhotoFilesManager.findNearestPhotoByTime).  *)
(* A candidate is a record with time, lat, lng.  The result is             *)
(* [found |-> FALSE] for null, else the nearest photo, its timeDiff and    *)
(* (for reference identity) its position `at` in the candidate list.       *)
(***************************************************************************)
\* if (!photo.time || !photo.lat || !photo.lng) continue;
IsEligible(photo) == photo.time # NULL /\ Truthy(photo.lat) /\ Truthy(photo.lng)

IsCloserOrEqual(timeDiff, best) == ~best.found \/ timeDiff <= best.timeDiff

\* if (timeDiff < minTimeDiff), minTimeDiff starting at Infinity
IsCloser(timeDiff, best) == ~best.found \/ timeDiff < best.timeDiff

RECURSIVE NearestLoop(_, _, _, _)
NearestLoop(targetMs, photoList, i, best) ==
    IF i > Len(photoList) THEN best
    ELSE LET photo    == photoList[i]
             timeDiff == Abs(targetMs - photo.time)
         IN  IF ~IsEligible(photo)
             THEN NearestLoop(targetMs, photoList, i + 1, best)
             ELSE IF IsCloser(timeDiff, best)
             THEN NearestLoop(targetMs, photoList, i + 1,
                              [found |-> TRUE, photo |-> photo,
                               timeDiff |-> timeDiff, at |-> i])
             ELSE NearestLoop(targetMs, photoList, i + 1, best)

findNearestPhotoByTime(targetTime, photoList) ==
    IF targetTime = NULL \/ Len(photoList) = 0
    THEN [found |-> FALSE]
    ELSE NearestLoop(targetTime, photoList, 1, [found |-> FALSE])

(***************************************************************************)
(* Location inference of a scan pass (scanAndProcessDirectory, the block   *)
(* after the extraction loop).                                             *)
(***************************************************************************)
HasGPS(p) == Truthy(p.lat) /\ Truthy(p.lng)

WithinCeilingStrict(timeDiff) == timeDiff < ONE_HOUR_MS

\* nearest.timeDiff <= ONE_HOUR_MS
WithinCeiling(timeDiff) == timeDiff <= ONE_HOUR_MS

InferOne(item, photosWithGPS) ==
    IF ~Truthy(item.lat) \/ ~Truthy(item.lng)
    THEN LET nearest == findNearestPhotoByTime(item.time, photosWithGPS)
         IN  IF nearest.found /\ WithinCeiling(nearest.timeDiff)
             THEN [item EXCEPT !.lat = nearest.photo.lat,
                               !.lng = nearest.photo.lng,
                               !.geoSource = "inferred"]
             ELSE item
    ELSE item

InferLocations(photoMetaList, videoMetaList) ==
    LET photosWithGPS == SelectSeq(photoMetaList, HasGPS)
    IN  IF Len(photosWithGPS) = 0
        THEN [photos |-> photoMetaList, videos |-> videoMetaList]
        ELSE [photos |-> [i \in 1..Len(photoMetaList) |->
                             InferOne(photoMetaList[i], photosWithGPS)],
              videos |-> [i \in 1..Len(videoMetaList) |->
                             InferOne(videoMetaList[i], photosWithGPS)]]

(***************************************************************************)
(* The catalog (Database.js).  cat is [photos, seq, photo_tags]: the rows  *)
(* of photos, the AUTOINCREMENT counter of photos, the photo_tags rows.    *)
(***************************************************************************)
SamePath(r, directory, filename) == r.directory = directory /\ r.filename = filename

isFileExists(photoRows, directory, filename) ==
    \E r \in photoRows : SamePath(r, directory, filename)

PhotoRow(id, photo) ==
    [id |-> id, directory |-> photo.directory, filename |-> photo.filename,
     time |-> photo.time, lat |-> OrNull(photo.lat), lng |-> OrNull(photo.lng),
     remark |-> NULL, like |-> 0, type |-> photo.type]

PlainInsert(cat, photo) ==
    [cat EXCEPT !.photos = cat.photos \cup {PhotoRow(cat.seq + 1, photo)},
                !.seq = cat.seq + 1]

\* INSERT OR REPLACE INTO photos ... under UNIQUE(directory, filename): the
\* conflicting row is deleted, its photo_tags rows with it (ON DELETE CASCADE),
\* and the new row takes a fresh AUTOINCREMENT id and the column defaults.
InsertOrReplace(cat, photo) ==
    [cat EXCEPT !.photos = {r \in cat.photos :
                               ~SamePath(r, photo.directory, photo.filename)}
                           \cup {PhotoRow(cat.seq + 1, photo)},
                !.photo_tags = {l \in @ :
                                  ~\E r \in cat.photos :
                                      /\ r.id = l[1]
                                      /\ SamePath(r, photo.directory, photo.filename)},
                !.seq = cat.seq + 1]

RECURSIVE InsertMany(_, _, _)
\* the rows items[1..n] written in order
InsertMany(cat, items, n) ==
    IF n = 0 THEN cat
    ELSE InsertOrReplace(InsertMany(cat, items, n - 1), items[n])

NoRollback(before, after, threw) == after

\* better-sqlite3 db.transaction(fn): COMMIT when fn returns, ROLLBACK when it throws.
Transaction(before, after, threw) == IF threw THEN before ELSE after

\* failAt = 0: every stmt.run succeeds; failAt = k: the k-th stmt.run throws.
batchInsertPhotos(cat, items, failAt) ==
    [cat |-> Transaction(cat,
                         InsertMany(cat, items,
                                    IF failAt = 0 THEN Len(items) ELSE failAt - 1),
                         failAt # 0),
     threw |-> failAt # 0]

upsertPhoto(cat, photo) == InsertOrReplace(cat, photo)

\* UPDATE photos SET remark = ? WHERE directory = ? AND filename = ?
savePhotoRemark(photoRows, directory, filename, remark) ==
    {IF SamePath(r, directory, filename) THEN [r EXCEPT !.remark = remark] ELSE r :
        r \in photoRows}

\* UPDATE photos SET like = ? WHERE directory = ? AND filename = ?
updatePhotoLike(photoRows, directory, filename, like) ==
    {IF SamePath(r, directory, filename)
     THEN [r EXCEPT !.like = IF like THEN 1 ELSE 0] ELSE r : r \in photoRows}

\* INSERT OR IGNORE INTO directories (path, added_time, last_scan_time) VALUES (?, ?, NULL)
addDirectory(dirs, path) ==
    IF \E d \in dirs : d.path = path THEN dirs
    ELSE dirs \cup {[path |-> path, last_scan_time |-> NULL]}

hasDirectory(dirs, path) == \E d \in dirs : d.path = path

\* UPDATE directories SET last_scan_time = now WHERE path = ?   (now is 1: non-null)
updateScanTime(dirs, path) ==
    {IF d.path = path THEN [d EXCEPT !.last_scan_time = 1] ELSE d : d \in dirs}

isDirectoryScanned(dirs, path) ==
    \E d \in dirs : d.path = path /\ d.last_scan_time # NULL

(***************************************************************************)
(* State.                                                                  *)
(***************************************************************************)
VARIABLES
    photos,        \* rows of table photos
    photoSeq,      \* AUTOINCREMENT counter of photos
    photo_tags,    \* rows <<photo_id, tag_id>> of table photo_tags
    directories,   \* rows of table directories
    scan,          \* per caller: the activation of scanAndProcessDirectory
    running,       \* the caller whose synchronous code the event loop runs, or "none"
    scansStarted,  \* scans started so far
    faults,        \* per-file exceptions so far
    upserts,       \* direct upsertPhoto calls so far
    ingested,      \* history: the <<directory, filename>> pairs committed so far
    fullScanDone   \* history: a scan with skipScanned = true has returned

passVars == <<photos, photoSeq, directories, scan, running,
              scansStarted, faults, upserts, ingested, fullScanDone>>

scanVars == <<passVars, photo_tags>>

\* The locator applied to bounded inputs.
VARIABLES
    locRaw,        \* what the parser found in each photo of a pass: time, lat, lng
    locTarget,     \* the time of the pass's video: the locator's target
    locPc,         \* "input", then "inferred" or "nearest"
    locOut,        \* the lists after location inference
    locNearest     \* the result of findNearestPhotoByTime

locVars == <<locRaw, locTarget, locPc, locOut, locNearest>>

\* The geofence evaluator applied to bounded inputs.
VARIABLES
    geoLandmark,   \* the tag_locations row the LandmarkTag is built from
    geoPoint,      \* the query point
    geoPc,         \* "input", then "evaluated"
    geoOut         \* the result of containsPoint

geoVars == <<geoLandmark, geoPoint, geoPc, geoOut>>

\* The files behind the catalog and the read paths of one DatabaseManager.
VARIABLES
    disk,            \* the paths at which a file is on disk now
    pathExistsCache, \* this.pathExistsCache: path -> result of fs.existsSync
    readOut,         \* the last read path called and the assets it returned
    readsDone        \* read path calls so far

readVars == <<disk, pathExistsCache, readOut, readsDone>>

\* Reverse geocoding: the queue of a MapManager and the clock.
VARIABLES
    now,               \* Date.now(), in units of 500 ms
    geocodeQueue,      \* this.geocodeQueue: the requests waiting, head first
    cityCache,         \* this.cityCache: the keys with a cached city name
    isProcessingQueue, \* this.isProcessingQueue
    lastGeocodingTime, \* this.lastGeocodingTime
    loops,             \* the activations of processGeocodeQueue suspended at an await
    lookups,           \* history: the fetches started, with start time and answer
    resolved,          \* history: the requests whose promise is resolved
    geoRequests,       \* getCityName calls so far
    throttled          \* answers 429 so far

queueVars == <<now, geocodeQueue, cityCache, isProcessingQueue, lastGeocodingTime,
               loops, lookups, resolved, geoRequests, throttled>>

\* extractMetadata applied to one file and one behaviour of the parser.
VARIABLES
    exFile,        \* the file name
    exParser,      \* what exifr.parse does: [outcome, at], at in units of 10 s
    exPc,          \* "input", "racing", then "resolved" or "rejected"
    exElapsed,     \* the time since the call, in units of 10 s
    exOut,         \* the record the promise resolved to
    exParserCalled \* history: exifr.parse was invoked

exVars == <<exFile, exParser, exPc, exElapsed, exOut, exParserCalled>>

\* The tag forest last read.
VARIABLES
    treeOut        \* the read path called, its category and the forest returned

treeVars == <<treeOut>>

auxVars == <<queueVars, exVars, treeVars>>

harnessVars == <<locVars, geoVars, readVars, auxVars>>

\* Tags and the event matcher.
VARIABLES
    tags,          \* rows of table tags
    tag_events,    \* rows of table tag_events
    tag_locations, \* rows of table tag_locations
    tag_faces,     \* rows of table tag_faces
    tagSeq,        \* AUTOINCREMENT counter of tags
    linksMade,     \* direct 'link-tag-to-photo' calls so far
    matches,       \* 'match-tags-for-photo' calls so far
    matchRequest,  \* the photo of the last call and the tags it had
    matchResult    \* the response of the last call

tagVars == <<tags, tag_events, tag_locations, tag_faces, tagSeq, linksMade,
             matches, matchRequest, matchResult>>

\* The callers of scanAndProcessDirectory: the menu handler
\* handleSetPhotoDirectory and the 'scan-directory' IPC handler.
Callers == {"menu", "ipc"}

\* main.js:121 passes skipScanned = false; main.js:269 leaves the default, true.
SkipScannedOf(caller) == caller = "ipc"

Catalog == [photos |-> photos, seq |-> photoSeq, photo_tags |-> photo_tags]

NoResult ==
    [totalPhotos |-> 0, totalVideos |-> 0, newPhotos |-> 0, newVideos |-> 0,
     skippedFiles |-> 0, skippedDirectory |-> FALSE]

IdleScan ==
    [pc |-> "idle", skipScanned |-> FALSE, stack |-> <<>>, visitedDirs |-> {},
     reads |-> <<>>, fileList |-> <<>>, idx |-> 0,
     photoMetaList |-> <<>>, videoMetaList |-> <<>>,
     totalPhotos |-> 0, totalVideos |-> 0, skippedFiles |-> 0,
     failed |-> {}, afterFull |-> FALSE, batchFailAt |-> 0, result |-> NoResult,
     sent |-> <<>>]

InFlight == {"walk", "extract", "await"}

\* handleSetPhotoDirectory without the catch around the scan
NoCatch(sc, s) ==
    IF s = "menu" /\ sc.pc = "returned"
    THEN [sc EXCEPT !.sent = Append(@, "scan-completed")]
    ELSE sc

\* The caller's code after  await scanAndProcessDirectory(...).  main.js:119-137:
\* try { ...; send('scan-completed', ...) } catch (error) { send('scan-error', ...) };
\* the 'scan-directory' handler sends nothing to the window.
Settled(sc, s) ==
    IF s = "menu" /\ sc.pc = "returned"
    THEN [sc EXCEPT !.sent = Append(@, "scan-completed")]
    ELSE IF s = "menu" /\ sc.pc = "rejected"
    THEN [sc EXCEPT !.sent = Append(@, "scan-error")]
    ELSE sc

\* The event loop runs a scan's synchronous code until it awaits or settles.
Runs(sc, s) == IF sc.pc \in {"walk", "extract"} THEN s ELSE "none"

ScanInit ==
    /\ photos = {}
    /\ photoSeq = 0
    /\ photo_tags = {}
    /\ directories = {}
    /\ scan = [s \in Callers |-> IdleScan]
    /\ running = "none"
    /\ scansStarted = 0
    /\ faults = 0
    /\ upserts = 0
    /\ ingested = {}
    /\ fullScanDone = FALSE

(***************************************************************************)
(* Directory walker (PhotoFilesManager.getAllFilesRecursively).            *)
(* A frame of the recursion is [rel, real, i]: the directory's path        *)
(* relative to the root, its real path, the index of the next item.        *)
(***************************************************************************)
\* A walker that stats through links and keeps no visited set.
NaiveItemAction(entry, rel, sc, dirs) ==
    IF entry.kind \in {"dir", "symlink"} THEN "descend"
    ELSE IF isMediaFile(entry.name) THEN "collect" ELSE "skip"

\* What the loop body does with one item of a directory, and whether the
\* recursive call it makes goes on to read the subdirectory.
ItemAction(entry, rel, sc, dirs) ==
    IF lstatSync(entry) = "symlink" THEN "skip"
    ELSE IF lstatSync(entry) = "dir"
    THEN IF IsSpecialDir(entry.name) THEN "skip"
         ELSE IF sc.skipScanned /\ hasDirectory(dirs, Append(rel, entry.name)) THEN "skip"
         ELSE IF entry.to \in sc.visitedDirs THEN "register"
         ELSE "descend"
    ELSE IF isMediaFile(entry.name) THEN "collect" ELSE "skip"

\* The head of getAllFilesRecursively once realPath is known to be new:
\* visitedDirs.add(realPath); items = fs.readdirSync(dirPath).
EnterDir(sc, rel, real) ==
    [sc EXCEPT !.visitedDirs = @ \cup {real},
               !.reads = Append(@, real),
               !.stack = Append(@, [rel |-> rel, real |-> real, i |-> 1])]

PopFrame(sc) == [sc EXCEPT !.stack = SubSeq(@, 1, Len(@) - 1)]

\* the top frame's index moved past the current item
Advance(sc) == [sc EXCEPT !.stack[Len(sc.stack)].i = @ + 1]

MediaItem(rel, name) == [directory |-> rel, filename |-> name]

(***************************************************************************)
(* Metadata extraction (PhotoFilesManager.extractMetadata).  parsed is     *)
(* FALSE when exifr.parse throws or the 30 s timeout wins the race.        *)
(***************************************************************************)
NoMeta == [time |-> NULL, lat |-> NULL, lng |-> NULL]

\* { time: meta.DateTimeOriginal || meta.CreateDate || null,
\*   lat: meta.latitude || null, lng: meta.longitude || null }
MetaFromExif(exif) ==
    [time |-> exif.time, lat |-> OrNull(exif.lat), lng |-> OrNull(exif.lng)]

extractMetadata(filename, parsed) ==
    IF Ext(filename) \in {"gif", "bmp", "webp", "png"} THEN NoMeta
    ELSE IF ~parsed THEN NoMeta
    ELSE MetaFromExif(Exif(filename))

\* photoMetaList.push({ ..., time: meta.time || this.getFileModifiedTime(fullPath), ... })
PhotoMeta(item, meta, mtime) ==
    [directory |-> item.directory, filename |-> item.filename,
     time |-> IF meta.time # NULL THEN meta.time ELSE mtime,
     lat |-> meta.lat, lng |-> meta.lng, type |-> "photo", geoSource |-> "none"]

VideoMeta(item, mtime) ==
    [directory |-> item.directory, filename |-> item.filename,
     time |-> mtime,
     lat |-> NULL, lng |-> NULL, type |-> "video", geoSource |-> "none"]

\* A scan without the per-file try/catch: the exception leaves the loop.
RethrowFileError(sc) == [sc EXCEPT !.pc = "rejected"]

\* A catch that does not count the file.
CatchUncounted(sc) == [sc EXCEPT !.failed = @ \cup {sc.idx}, !.idx = @ + 1]

\* catch (error) { ...; skippedFiles++; processedCount++; }
CatchFileError(sc) ==
    [sc EXCEPT !.skippedFiles = @ + 1, !.failed = @ \cup {sc.idx}, !.idx = @ + 1]

(***************************************************************************)
(* The scan pass (PhotoFilesManager.scanAndProcessDirectory), started by   *)
(* handleSetPhotoDirectory or by the 'scan-directory' handler.  Neither    *)
(* caller looks at the scans already in flight.                            *)
(***************************************************************************)
\* The call up to the first item of the root: addDirectory(''), then the
\* head of getAllFilesRecursively(dirPath, [], skipScanned, new Set(), ...).
StartScan(s) ==
    /\ running = "none"
    /\ scan[s].pc \in {"idle", "returned", "rejected"}
    /\ UNCHANGED <<harnessVars, tagVars>>
    /\ scansStarted < MaxScans
    /\ scansStarted' = scansStarted + 1
    /\ directories' = addDirectory(directories, <<>>)
    /\ scan' = [scan EXCEPT ![s] =
                   EnterDir([IdleScan EXCEPT !.pc = "walk",
                                             !.skipScanned = SkipScannedOf(s),
                                             !.sent = IF s = "menu"
                                                      THEN <<"scan-started">>
                                                      ELSE <<>>,
                                             !.afterFull = fullScanDone],
                            <<>>, "root")]
    /\ running' = s
    /\ UNCHANGED <<photos, photoSeq, photo_tags, faults, upserts, ingested, fullScanDone>>

\* One iteration of  for (const item of items)  in the innermost call, or
\* the return of that call when its items are exhausted.
WalkStep(s) ==
    /\ running = s
    /\ scan[s].pc = "walk"
    /\ UNCHANGED <<harnessVars, tagVars>>
    /\ Len(scan[s].stack) > 0
    /\ LET sc    == scan[s]
           f     == sc.stack[Len(sc.stack)]
           items == readdirSync(f.real)
       IN  IF f.i > Len(items)
           THEN /\ scan' = [scan EXCEPT ![s] = PopFrame(sc)]
                /\ UNCHANGED directories
           ELSE LET entry == items[f.i]
                    sub   == Append(f.rel, entry.name)
                    act   == ItemAction(entry, f.rel, sc, directories)
                IN  /\ directories' = IF act \in {"register", "descend"}
                                      THEN addDirectory(directories, sub)
                                      ELSE directories
                    /\ scan' = [scan EXCEPT ![s] =
                          IF act = "descend" THEN EnterDir(Advance(sc), sub, entry.to)
                          ELSE IF act = "collect"
                          THEN [Advance(sc) EXCEPT
                                   !.fileList = Append(@, MediaItem(f.rel, entry.name))]
                          ELSE Advance(sc)]
    /\ UNCHANGED <<photos, photoSeq, photo_tags, running, scansStarted, faults,
                   upserts, ingested, fullScanDone>>

\* The walk has returned: the early return on an empty list, or the start
\* of the extraction loop.
WalkDone(s) ==
    /\ running = s
    /\ scan[s].pc = "walk"
    /\ UNCHANGED <<harnessVars, tagVars>>
    /\ Len(scan[s].stack) = 0
    /\ LET sc == scan[s]
       IN  IF Len(sc.fileList) = 0
           THEN /\ directories' = updateScanTime(directories, <<>>)
                /\ scan' = [scan EXCEPT ![s] =
                               Settled([sc EXCEPT !.pc = "returned",
                                                  !.result = NoResult], s)]
                /\ running' = "none"
                /\ fullScanDone' = (fullScanDone \/ sc.skipScanned)
           ELSE /\ scan' = [scan EXCEPT ![s] = [sc EXCEPT !.pc = "extract", !.idx = 1]]
                /\ UNCHANGED <<directories, running, fullScanDone>>
    /\ UNCHANGED <<photos, photoSeq, photo_tags, scansStarted, faults, upserts, ingested>>

\* One iteration of the extraction loop up to its await (a new photo), its
\* continue (a file already catalogued), its catch (threw) or its end.
ExtractStep(s) ==
    /\ running = s
    /\ scan[s].pc = "extract"
    /\ UNCHANGED <<harnessVars, tagVars>>
    /\ scan[s].idx <= Len(scan[s].fileList)
    /\ \E threw \in BOOLEAN :
         /\ threw => faults < MaxFaults
         /\ faults' = IF threw THEN faults + 1 ELSE faults
         /\ LET sc      == scan[s]
                item    == sc.fileList[sc.idx]
                isPhoto == isPhotoExtension(item.filename)
                counted == IF isPhoto THEN [sc EXCEPT !.totalPhotos = @ + 1]
                           ELSE [sc EXCEPT !.totalVideos = @ + 1]
                next    == IF threw THEN CatchFileError(counted)
                           ELSE IF isFileExists(photos, item.directory, item.filename)
                           THEN [counted EXCEPT !.skippedFiles = @ + 1, !.idx = @ + 1]
                           ELSE IF isPhoto THEN [counted EXCEPT !.pc = "await"]
                           ELSE [counted EXCEPT
                                    !.videoMetaList =
                                       Append(@, VideoMeta(item, getFileModifiedTime(item.filename))),
                                    !.idx = @ + 1]
            IN  /\ scan' = [scan EXCEPT ![s] = Settled(next, s)]
                /\ running' = Runs(next, s)
    /\ UNCHANGED <<photos, photoSeq, photo_tags, directories, scansStarted,
                   upserts, ingested, fullScanDone>>

\* await this.extractMetadata(fullPath, filename) settles and the loop body
\* goes on to photoMetaList.push.
ResumeExtract(s) ==
    /\ running = "none"
    /\ scan[s].pc = "await"
    /\ UNCHANGED <<harnessVars, tagVars>>
    /\ \E parsed \in BOOLEAN :
         LET sc   == scan[s]
             item == sc.fileList[sc.idx]
             meta == extractMetadata(item.filename, parsed)
         IN  scan' = [scan EXCEPT ![s] =
                         [sc EXCEPT !.photoMetaList =
                                        Append(@, PhotoMeta(item, meta,
                                                 getFileModifiedTime(item.filename))),
                                    !.idx = @ + 1,
                                    !.pc = "extract"]]
    /\ running' = s
    /\ UNCHANGED <<photos, photoSeq, photo_tags, directories, scansStarted, faults,
                   upserts, ingested, fullScanDone>>

\* After the loop: location inference, the batch write, updateScanTime('')
\* and the summary.  A batch that throws leaves the function at line 475.
FinishScan(s) ==
    /\ running = s
    /\ scan[s].pc = "extract"
    /\ UNCHANGED <<harnessVars, tagVars>>
    /\ scan[s].idx > Len(scan[s].fileList)
    /\ LET sc       == scan[s]
           inferred == InferLocations(sc.photoMetaList, sc.videoMetaList)
           allFiles == inferred.photos \o inferred.videos
       IN  \E failAt \in 0..Len(allFiles) :
             LET res == batchInsertPhotos(Catalog, allFiles, failAt)
             IN  /\ photos' = res.cat.photos
                 /\ photoSeq' = res.cat.seq
                 /\ photo_tags' = res.cat.photo_tags
                 /\ directories' = IF res.threw THEN directories
                                   ELSE updateScanTime(directories, <<>>)
                 /\ ingested' = IF res.threw THEN ingested
                                ELSE ingested \cup
                                     {<<f.directory, f.filename>> : f \in SeqToSet(allFiles)}
                 /\ fullScanDone' = (fullScanDone \/ (~res.threw /\ sc.skipScanned))
                 /\ scan' = [scan EXCEPT ![s] = Settled(
                       [sc EXCEPT
                          !.photoMetaList = inferred.photos,
                          !.videoMetaList = inferred.videos,
                          !.batchFailAt = failAt,
                          !.pc = IF res.threw THEN "rejected" ELSE "returned",
                          !.result = IF res.threw THEN NoResult
                                     ELSE [totalPhotos |-> sc.totalPhotos,
                                           totalVideos |-> sc.totalVideos,
                                           newPhotos |-> Len(inferred.photos),
                                           newVideos |-> Len(inferred.videos),
                                           skippedFiles |-> sc.skippedFiles,
                                           skippedDirectory |-> FALSE]], s)]
    /\ running' = "none"
    /\ UNCHANGED <<scansStarted, faults, upserts>>

\* The photos a direct caller of upsertPhoto passes.
UpsertInputs ==
    {[directory |-> <<>>, filename |-> "p1.jpg", time |-> 7200000,
      lat |-> 10, lng |-> 20, type |-> "photo"],
     [directory |-> <<"a">>, filename |-> "p2.jpg", time |-> NULL,
      lat |-> 0, lng |-> NULL, type |-> "photo"]}

\* DatabaseManager.upsertPhoto called between two tasks of the event loop.
UpsertPhoto ==
    /\ running = "none"
    /\ upserts < MaxUpserts
    /\ UNCHANGED <<harnessVars, tagVars>>
    /\ upserts' = upserts + 1
    /\ \E photo \in UpsertInputs :
         LET cat == upsertPhoto(Catalog, photo)
         IN  /\ photos' = cat.photos
             /\ photoSeq' = cat.seq
             /\ photo_tags' = cat.photo_tags
             /\ ingested' = ingested \cup {<<photo.directory, photo.filename>>}
    /\ UNCHANGED <<directories, scan, running, scansStarted, faults, fullScanDone>>

(***************************************************************************)
(* Tags (Database.js, the Tag classes, the 'tag-manage-*' handlers).       *)
(* tdb is [tags, tag_events, tag_locations, tag_faces, seq]: the rows of   *)
(* the four tables and the AUTOINCREMENT counter of tags.                  *)
(*                                                                         *)
(* Places.  Every point of the model lies on one meridian (lng = 20) and   *)
(* its lat is given as its arc length in metres from the equator: there    *)
(* the haversine distance of two points is the difference of their arcs.   *)
(***************************************************************************)
Categories == {"face", "event", "location", "common"}

EmptyTagDb ==
    [tags |-> {}, tag_events |-> {}, tag_locations |-> {}, tag_faces |-> {}, seq |-> 0]

TagRow(tdb, id) == CHOOSE t \in tdb.tags : t.id = id

TagExists(tdb, id) == \E t \in tdb.tags : t.id = id

\* The foreign key parent_id REFERENCES tags(id) (better-sqlite3 turns
\* foreign keys on): null or an existing tag.
ParentOk(tdb, parentId) == parentId = NULL \/ TagExists(tdb, parentId)

\* saveTag's switch (tag.category) on a tag built by the 'tag-manage-add-tag'
\* handler: the extension row of the tag's category, with the defaults of
\* its class (no dates, no coordinates, radius 0).
SaveExtension(tdb, id, category) ==
    CASE category = "face" ->
           [tdb EXCEPT !.tag_faces = {f \in @ : f.tag_id # id} \cup {[tag_id |-> id]}]
      [] category = "event" ->
           IF \E e \in tdb.tag_events : e.tag_id = id
           THEN [tdb EXCEPT !.tag_events =
                    {IF e.tag_id = id
                     THEN [e EXCEPT !.start_time = NULL, !.end_time = NULL]
                     ELSE e : e \in @}]
           ELSE [tdb EXCEPT !.tag_events = @ \cup
                    {[tag_id |-> id, start_time |-> NULL, end_time |-> NULL,
                      location_tag_id |-> NULL]}]
      [] category = "location" ->
           [tdb EXCEPT !.tag_locations = {l \in @ : l.tag_id # id} \cup
                    {[tag_id |-> id, lat |-> NULL, lng |-> NULL, radius |-> 0]}]
      [] OTHER -> tdb

\* saveTag, one transaction.  The base row is inserted, or on a name that
\* exists its category and parent_id are overwritten (ON CONFLICT(name) DO
\* UPDATE).  id is result.lastInsertRowid, or when that is 0 the id selected
\* by name: after DO UPDATE lastInsertRowid is still the rowid of the
\* connection's last INSERT into any table (0 on a fresh connection).  The
\* extension row of the category is written for id; a CHECK or FOREIGN KEY
\* failure throws and rolls everything back.
saveTag(tdb, name, category, parentId, lastInsertRowid) ==
    IF ~ParentOk(tdb, parentId) \/ category \notin Categories THEN tdb
    ELSE IF ~(\E t \in tdb.tags : t.name = name)
    THEN SaveExtension(
             [tdb EXCEPT !.tags = @ \cup {[id |-> tdb.seq + 1, name |-> name,
                                           category |-> category,
                                           parent_id |-> parentId]},
                         !.seq = @ + 1],
             tdb.seq + 1, category)
    ELSE LET row  == CHOOSE t \in tdb.tags : t.name = name
             base == [tdb EXCEPT !.tags = (@ \ {row}) \cup
                         {[row EXCEPT !.category = category, !.parent_id = parentId]}]
             id   == IF lastInsertRowid # 0 THEN lastInsertRowid ELSE row.id
         IN  IF category \in {"face", "event", "location"} /\ ~TagExists(base, id)
             THEN tdb
             ELSE SaveExtension(base, id, category)

\* addTag: INSERT OR IGNORE INTO tags (no extension row)
addTag(tdb, name, category, parentId) ==
    IF ~ParentOk(tdb, parentId) THEN tdb
    ELSE IF category \notin Categories \/ (\E t \in tdb.tags : t.name = name) THEN tdb
    ELSE [tdb EXCEPT !.tags = @ \cup {[id |-> tdb.seq + 1, name |-> name,
                                       category |-> category, parent_id |-> parentId]},
                     !.seq = @ + 1]

\* updateTagBase: UPDATE tags SET name, remark, color WHERE id (name is UNIQUE)
updateTagBase(tdb, id, name) ==
    IF \E t \in tdb.tags : t.id # id /\ t.name = name THEN tdb
    ELSE [tdb EXCEPT !.tags = {IF t.id = id THEN [t EXCEPT !.name = name] ELSE t : t \in @}]

\* moveTag: UPDATE tags SET parent_id = ? WHERE id = ?
moveTag(tdb, id, parentId) ==
    IF ~ParentOk(tdb, parentId) THEN tdb
    ELSE [tdb EXCEPT !.tags =
             {IF t.id = id THEN [t EXCEPT !.parent_id = parentId] ELSE t : t \in @}]

\* the ids of a set in ascending order (the order SQLite returns rows in)
RECURSIVE Ascending(_)
Ascending(ids) ==
    IF ids = {} THEN <<>>
    ELSE LET m == CHOOSE x \in ids : \A y \in ids : x <= y
         IN  <<m>> \o Ascending(ids \ {m})

\* SELECT id FROM tags WHERE parent_id = ?
ChildrenOf(tdb, id) == {t.id : t \in {x \in tdb.tags : x.parent_id = id}}

\* deleteTag's collectIds, children before their parent.  [ok |-> FALSE] is
\* the RangeError of a recursion deeper than any tree over the table's rows.
RECURSIVE CollectIds(_, _, _)
RECURSIVE CollectIdsOfAll(_, _, _)
CollectIds(tdb, tagId, depth) ==
    IF depth > Cardinality(tdb.tags) THEN [ok |-> FALSE, ids |-> <<>>]
    ELSE LET below == CollectIdsOfAll(tdb, Ascending(ChildrenOf(tdb, tagId)), depth + 1)
         IN  IF below.ok THEN [ok |-> TRUE, ids |-> Append(below.ids, tagId)]
             ELSE below

CollectIdsOfAll(tdb, children, depth) ==
    IF Len(children) = 0 THEN [ok |-> TRUE, ids |-> <<>>]
    ELSE LET first == CollectIds(tdb, Head(children), depth)
             rest  == CollectIdsOfAll(tdb, Tail(children), depth)
         IN  IF first.ok /\ rest.ok THEN [ok |-> TRUE, ids |-> first.ids \o rest.ids]
             ELSE [ok |-> FALSE, ids |-> <<>>]

\* DELETE FROM tags WHERE id = ? for every id of gone, with the foreign keys'
\* actions: the extension rows and the photo_tags rows of the tag go with it
\* (ON DELETE CASCADE), an event linked to it loses the link (SET NULL).
\* all is [tdb, photo_tags].
DeleteRows(all, gone) ==
    [tdb |-> [all.tdb EXCEPT
                 !.tags = {t \in @ : t.id \notin gone},
                 !.tag_faces = {f \in @ : f.tag_id \notin gone},
                 !.tag_locations = {l \in @ : l.tag_id \notin gone},
                 !.tag_events =
                     {IF e.location_tag_id \in gone
                      THEN [e EXCEPT !.location_tag_id = NULL] ELSE e :
                        e \in {x \in @ : x.tag_id \notin gone}}],
     photo_tags |-> {l \in all.photo_tags : l[2] \notin gone}]

\* deleteTag: the tag and all its descendants, in one transaction
deleteTag(all, id) ==
    LET found == CollectIds(all.tdb, id, 0)
    IN  IF found.ok THEN DeleteRows(all, SeqToSet(found.ids)) ELSE all

\* INSERT INTO tag_locations ... ON CONFLICT(tag_id) DO UPDATE SET lat, lng, radius
updateLocation(tdb, tagId, lat, lng, radius) ==
    IF ~TagExists(tdb, tagId) THEN tdb
    ELSE [tdb EXCEPT !.tag_locations = {l \in @ : l.tag_id # tagId} \cup
             {[tag_id |-> tagId, lat |-> lat, lng |-> lng, radius |-> radius]}]

\* UPDATE tag_events SET start_time = ?, end_time = ? WHERE tag_id = ?
updateEventDates(tdb, tagId, startTime, endTime) ==
    [tdb EXCEPT !.tag_events =
        {IF e.tag_id = tagId
         THEN [e EXCEPT !.start_time = startTime, !.end_time = endTime]
         ELSE e : e \in @}]

\* UPDATE tag_events SET location_tag_id = ? WHERE tag_id = ?
updateEventLocationTag(tdb, tagId, locationTagId) ==
    IF ~ParentOk(tdb, locationTagId) THEN tdb
    ELSE [tdb EXCEPT !.tag_events =
             {IF e.tag_id = tagId THEN [e EXCEPT !.location_tag_id = locationTagId]
              ELSE e : e \in @}]

\* getAllEventTagsWithLocation: the event tags with both dates and a landmark
getAllEventTagsWithLocation(tdb) ==
    LET ok(e) == /\ TagExists(tdb, e.tag_id)
                 /\ TagRow(tdb, e.tag_id).category = "event"
                 /\ e.start_time # NULL
                 /\ e.end_time # NULL
                 /\ e.location_tag_id # NULL
        rowOf(id) == CHOOSE e \in tdb.tag_events : e.tag_id = id
    IN  [i \in 1..Cardinality({e \in tdb.tag_events : ok(e)}) |->
            rowOf(Ascending({e.tag_id : e \in {x \in tdb.tag_events : ok(x)}})[i])]

ExclusiveContainsTime(evt, time) ==
    /\ evt.start_time # NULL /\ evt.end_time # NULL
    /\ time > evt.start_time /\ time < evt.end_time

\* EventTag.containsTime: hasDuration, then  t >= startTime && t <= endTime
containsTime(evt, time) ==
    /\ evt.start_time # NULL /\ evt.end_time # NULL
    /\ time >= evt.start_time /\ time <= evt.end_time

\* LandmarkTag.haversineDistance, for two points of one meridian
haversineDistance(lat1, lng1, lat2, lng2) == Abs(lat2 - lat1)

\* new LandmarkTag(data): lat ?? null, lng ?? null, radius ?? 0
LandmarkTag(data) ==
    [lat |-> data.lat, lng |-> data.lng,
     radius |-> IF data.radius = NULL THEN 0 ELSE data.radius]

\* a circle without its boundary
ContainsPointInside(landmark, lat, lng) ==
    IF landmark.lat = NULL \/ landmark.lng = NULL \/ landmark.radius <= 0 THEN FALSE
    ELSE haversineDistance(landmark.lat, landmark.lng, lat, lng) < landmark.radius

\* LandmarkTag.containsPoint
containsPoint(landmark, lat, lng) ==
    IF landmark.lat = NULL \/ landmark.lng = NULL \/ landmark.radius <= 0 THEN FALSE
    ELSE haversineDistance(landmark.lat, landmark.lng, lat, lng) <= landmark.radius

\* the tag_locations row of a tag, or {} (no coordinates, no radius)
LocationOf(tdb, id) ==
    IF \E l \in tdb.tag_locations : l.tag_id = id
    THEN CHOOSE l \in tdb.tag_locations : l.tag_id = id
    ELSE [tag_id |-> id, lat |-> NULL, lng |-> NULL, radius |-> NULL]

\* SELECT id FROM tags WHERE parent_id = ? AND category = 'location'
LocationChildren(tdb, id) ==
    {t.id : t \in {x \in tdb.tags : x.parent_id = id /\ x.category = "location"}}

RECURSIVE Collect(_, _, _)
RECURSIVE CollectAll(_, _, _)
\* getLocationTagDescendants' collect(id, depth)
Collect(tdb, id, depth) ==
    IF ~TagExists(tdb, id) THEN <<>>
    ELSE << [id |-> id, lat |-> LocationOf(tdb, id).lat, lng |-> LocationOf(tdb, id).lng,
             radius |-> LocationOf(tdb, id).radius, depth |-> depth] >>
         \o CollectAll(tdb, Ascending(LocationChildren(tdb, id)), depth + 1)

\* for (const c of children) collect(c.id, depth + 1)
CollectAll(tdb, children, depth) ==
    IF Len(children) = 0 THEN <<>>
    ELSE Collect(tdb, Head(children), depth) \o CollectAll(tdb, Tail(children), depth)

getLocationTagDescendants(tdb, tagId) == Collect(tdb, tagId, 0)

\* descendants.sort((a, b) => b._depth - a._depth)  (the sort is stable)
SortByDepthDesc(descendants) ==
    LET RECURSIVE down(_)
        down(d) == IF d < 0 THEN <<>>
                   ELSE SelectSeq(descendants, LAMBDA x : x.depth = d) \o down(d - 1)
    IN  down(Len(descendants))

\* Step 3 of the handler: the first descendant of depth > 0, deepest first,
\* whose geofence contains the point, else the landmark itself; 0 for none.
ResolveLandmark(tdb, locationTagId, lat, lng) ==
    LET sorted == SortByDepthDesc(getLocationTagDescendants(tdb, locationTagId))
        hits   == SelectSeq(sorted, LAMBDA d :
                      d.depth # 0 /\ containsPoint(LandmarkTag(d), lat, lng))
        roots  == SelectSeq(sorted, LAMBDA d : d.depth = 0)
    IN  IF Len(hits) > 0 THEN hits[1].id
        ELSE IF Len(roots) > 0 THEN roots[1].id
        ELSE 0

\* INSERT OR IGNORE INTO photo_tags (photo_id, tag_id)
linkTagToPhoto(links, photoId, tagId) == links \cup {<<photoId, tagId>>}

\* getPhotoTags: the ids of the photo's tags
getPhotoTags(links, tdb, photoId) ==
    {l[2] : l \in {x \in links : x[1] = photoId /\ TagExists(tdb, x[2])}}

(***************************************************************************)
(* The event matcher (main.js, ipcMain.handle('match-tags-for-photo')).    *)
(* st is [links, existingIds, matchedTags]: table photo_tags, the handler's *)
(* set existingIds and the ids of its list matchedTags.                    *)
(***************************************************************************)
\* 1. for (const faceTagId of matchedFaceTagIds)
RECURSIVE LinkFaces(_, _, _, _)
LinkFaces(tdb, photoId, faceIds, st) ==
    IF Len(faceIds) = 0 THEN st
    ELSE LET id == Head(faceIds)
             st1 == IF id \in st.existingIds THEN st
                    ELSE IF TagExists(tdb, id)
                         THEN [links |-> linkTagToPhoto(st.links, photoId, id),
                               existingIds |-> st.existingIds \cup {id},
                               matchedTags |-> Append(st.matchedTags, id)]
                         ELSE [st EXCEPT !.links = linkTagToPhoto(st.links, photoId, id)]
         IN  LinkFaces(tdb, photoId, Tail(faceIds), st1)

\* SELECT * FROM tags t JOIN tag_locations l ON t.id = l.tag_id WHERE t.id = ?
HasLocData(tdb, id) ==
    TagExists(tdb, id) /\ \E l \in tdb.tag_locations : l.tag_id = id

\* if (!existingIds.has(id)) { linkTagToPhoto; matchedTags.push; existingIds.add }
Assign(st, photoId, id) ==
    IF id \in st.existingIds THEN st
    ELSE [links |-> linkTagToPhoto(st.links, photoId, id),
          existingIds |-> st.existingIds \cup {id},
          matchedTags |-> Append(st.matchedTags, id)]

\* the body of  for (const evt of events)
MatchEvent(tdb, photo, evt, st) ==
    IF ~containsTime(evt, photo.time) THEN st
    ELSE IF ~HasLocData(tdb, evt.location_tag_id) THEN st
    ELSE IF ~containsPoint(LandmarkTag(LocationOf(tdb, evt.location_tag_id)),
                           photo.lat, photo.lng) THEN st
    ELSE LET st1 == Assign(st, photo.id, evt.tag_id)
             matchedLoc == ResolveLandmark(tdb, evt.location_tag_id, photo.lat, photo.lng)
         IN  IF matchedLoc = 0 THEN st1 ELSE Assign(st1, photo.id, matchedLoc)

\* the loop left at the first candidate that assigns nothing
RECURSIVE BreakOnReject(_, _, _, _)
BreakOnReject(tdb, photo, events, st) ==
    IF Len(events) = 0 THEN st
    ELSE LET st1 == MatchEvent(tdb, photo, Head(events), st)
         IN  IF st1 = st THEN st
             ELSE BreakOnReject(tdb, photo, Tail(events), st1)

RECURSIVE MatchEvents(_, _, _, _)
MatchEvents(tdb, photo, events, st) ==
    IF Len(events) = 0 THEN st
    ELSE MatchEvents(tdb, photo, Tail(events), MatchEvent(tdb, photo, Head(events), st))

\* the handler for a photo that exists
MatchTags(tdb, photoTags, photo, matchedFaceTagIds) ==
    LET st0 == [links |-> photoTags,
                existingIds |-> getPhotoTags(photoTags, tdb, photo.id),
                matchedTags |-> <<>>]
        st1 == LinkFaces(tdb, photo.id, matchedFaceTagIds, st0)
    IN  IF photo.time # NULL /\ photo.lat # NULL /\ photo.lng # NULL
        THEN MatchEvents(tdb, photo, getAllEventTagsWithLocation(tdb), st1)
        ELSE st1

(***************************************************************************)
(* Tag handlers as steps of the program.                                   *)
(***************************************************************************)
\* most tags created
MaxTags == 4

\* most direct 'link-tag-to-photo' calls
MaxLinks == 1

\* most 'match-tags-for-photo' calls
MaxMatches == 1

\* The tags the user creates, in this order (the first MaxTags of them), and
\* the categories tried.
TagInputs ==
    << [name |-> "City",   categories |-> {"location"}],
       [name |-> "Mid",    categories |-> Categories],
       [name |-> "Museum", categories |-> {"location"}],
       [name |-> "E",      categories |-> {"event"}],
       [name |-> "Hall",   categories |-> {"location"}] >>

\* The circles the user draws: City (radius 5000 m) and, inside it, Museum
\* (radius 100 m, 800 m north of City's centre).
Fences ==
    {[lat |-> 10000, lng |-> 20, radius |-> 5000],
     [lat |-> 10800, lng |-> 20, radius |-> 100]}

\* The event windows the user enters.
Windows == {[startTime |-> 1000, endTime |-> 2000]}

\* Capture time and place of the catalog's photos in the matcher's runs:
\* on both bounds of the window and next to them, inside Museum, on City's
\* circle and just outside it, and without a time or without a place.
Shots ==
    << [filename |-> "m1.jpg", time |-> 1000, lat |-> 10800, lng |-> 20],
       [filename |-> "m2.jpg", time |-> 2000, lat |-> 15000, lng |-> 20],
       [filename |-> "m3.jpg", time |-> 2001, lat |-> 10800, lng |-> 20],
       [filename |-> "m4.jpg", time |-> 999,  lat |-> 12500, lng |-> 20],
       [filename |-> "m5.jpg", time |-> 1500, lat |-> 15001, lng |-> 20],
       [filename |-> "m6.jpg", time |-> 1500, lat |-> NULL,  lng |-> NULL],
       [filename |-> "m7.jpg", time |-> NULL, lat |-> 10800, lng |-> 20] >>

\* the links a user makes by hand
LinkInputs == {<<1, 1>>, <<1, 4>>}

TagDb ==
    [tags |-> tags, tag_events |-> tag_events, tag_locations |-> tag_locations,
     tag_faces |-> tag_faces, seq |-> tagSeq]

TagIds == {t.id : t \in tags}

IdsOf(category) == {t.id : t \in {x \in tags : x.category = category}}

NoRequest == [photoId |-> 0, had |-> {}]

NoResponse == [success |-> FALSE, matchedTags |-> <<>>]

TagInit ==
    /\ tags = {}
    /\ tag_events = {}
    /\ tag_locations = {}
    /\ tag_faces = {}
    /\ tagSeq = 0
    /\ linksMade = 0
    /\ matches = 0
    /\ matchRequest = NoRequest
    /\ matchResult = NoResponse

\* the tag tables holding tdb before any handler call
SetTagInit(tdb) ==
    /\ tags = tdb.tags
    /\ tag_events = tdb.tag_events
    /\ tag_locations = tdb.tag_locations
    /\ tag_faces = tdb.tag_faces
    /\ tagSeq = tdb.seq
    /\ linksMade = 0
    /\ matches = 0
    /\ matchRequest = NoRequest
    /\ matchResult = NoResponse

SetTagDb(tdb) ==
    /\ tags' = tdb.tags
    /\ tag_events' = tdb.tag_events
    /\ tag_locations' = tdb.tag_locations
    /\ tag_faces' = tdb.tag_faces
    /\ tagSeq' = tdb.seq

\* 'tag-manage-add-tag'
AddTag ==
    /\ tagSeq < MaxTags
    /\ \E category \in TagInputs[tagSeq + 1].categories, parentId \in TagIds \cup {NULL} :
         SetTagDb(saveTag(TagDb, TagInputs[tagSeq + 1].name, category, parentId, 0))
    /\ UNCHANGED <<linksMade, matches, matchRequest, matchResult>>
    /\ UNCHANGED <<scanVars, harnessVars>>

\* 'tag-manage-save-location'
SaveLocation ==
    /\ \E tagId \in IdsOf("location"), fence \in Fences :
         SetTagDb(updateLocation(TagDb, tagId, fence.lat, fence.lng, fence.radius))
    /\ UNCHANGED <<linksMade, matches, matchRequest, matchResult>>
    /\ UNCHANGED <<scanVars, harnessVars>>

\* the day of a time: _handleSaveEvent compares the dates' first 10 characters
Day(t) == t \div 86400000

\* _handleSaveEvent's check of a child event against its parent's dates
WithinParentDates(tdb, tagId, startTime, endTime) ==
    LET tag == TagRow(tdb, tagId)
        isChild == /\ tag.parent_id # NULL
                   /\ \E e \in tdb.tag_events :
                        /\ e.tag_id = tag.parent_id
                        /\ TagRow(tdb, tag.parent_id).category = "event"
                        /\ e.start_time # NULL /\ e.end_time # NULL
        parent == CHOOSE e \in tdb.tag_events : e.tag_id = tag.parent_id
    IN  isChild => ~(Day(startTime) < Day(parent.start_time)
                     \/ Day(endTime) > Day(parent.end_time))

\* 'tag-manage-save-event'
SaveEvent ==
    /\ \E tagId \in IdsOf("event"), w \in Windows :
         /\ WithinParentDates(TagDb, tagId, w.startTime, w.endTime)
         /\ SetTagDb(updateEventDates(TagDb, tagId, w.startTime, w.endTime))
    /\ UNCHANGED <<linksMade, matches, matchRequest, matchResult>>
    /\ UNCHANGED <<scanVars, harnessVars>>

\* 'tag-manage-save-event-location', with the landmark picked in the tag
\* selector's location tab
SaveEventLocation ==
    /\ \E tagId \in IdsOf("event"), locationTagId \in IdsOf("location") :
         SetTagDb(updateEventLocationTag(TagDb, tagId, locationTagId))
    /\ UNCHANGED <<linksMade, matches, matchRequest, matchResult>>
    /\ UNCHANGED <<scanVars, harnessVars>>

\* 'link-tag-to-photo'
LinkTagToPhoto ==
    /\ linksMade < MaxLinks
    /\ \E l \in LinkInputs :
         /\ l[2] \in TagIds
         /\ \E r \in photos : r.id = l[1]
         /\ photo_tags' = linkTagToPhoto(photo_tags, l[1], l[2])
    /\ linksMade' = linksMade + 1
    /\ UNCHANGED <<tags, tag_events, tag_locations, tag_faces, tagSeq,
                   matches, matchRequest, matchResult>>
    /\ UNCHANGED <<passVars, harnessVars>>

\* 'match-tags-for-photo'
MatchTagsForPhoto ==
    /\ matches < MaxMatches
    /\ \E photo \in photos, faceIds \in {<<>>} \cup {<<id>> : id \in IdsOf("face")} :
         LET st == MatchTags(TagDb, photo_tags, photo, faceIds)
         IN  /\ photo_tags' = st.links
             /\ matchRequest' = [photoId |-> photo.id,
                                 had |-> getPhotoTags(photo_tags, TagDb, photo.id)]
             /\ matchResult' = [success |-> TRUE, matchedTags |-> st.matchedTags]
    /\ matches' = matches + 1
    /\ UNCHANGED <<tags, tag_events, tag_locations, tag_faces, tagSeq, linksMade>>
    /\ UNCHANGED <<passVars, harnessVars>>

(***************************************************************************)
(* The tag handlers with the inputs of the tree runs: a few names used     *)
(* again and again, any tag as parent, any tag as the target of a handler. *)
(***************************************************************************)
\* most rows ever inserted into tags in a tree run
MaxTreeTags == 2

\* most direct 'link-tag-to-photo' calls in a tree run
MaxTreeLinks == 2

\* The names the user types and the categories tried with each.
TreeNames == {"A", "B", "C"}

TreeCategories(name) ==
    CASE name = "A" -> {"location", "event"}
      [] name = "B" -> {"location"}
      [] OTHER      -> {"common"}

\* result.lastInsertRowid as saveTag may find it after ON CONFLICT DO UPDATE
LastRowids == 0..MaxTreeTags

\* 'tag-manage-add-tag' with any name, new or in use
SaveTagNamed ==
    /\ \E name \in TreeNames, parentId \in TagIds \cup {NULL}, last \in LastRowids :
         /\ (\A t \in tags : t.name # name) => tagSeq < MaxTreeTags
         /\ \E category \in TreeCategories(name) :
              SetTagDb(saveTag(TagDb, name, category, parentId, last))
    /\ UNCHANGED <<linksMade, matches, matchRequest, matchResult>>
    /\ UNCHANGED <<scanVars, harnessVars>>

\* DatabaseManager.addTag
DbAddTag ==
    /\ tagSeq < MaxTreeTags
    /\ \E parentId \in TagIds \cup {NULL} :
         SetTagDb(addTag(TagDb, "B", "location", parentId))
    /\ UNCHANGED <<linksMade, matches, matchRequest, matchResult>>
    /\ UNCHANGED <<scanVars, harnessVars>>

\* 'tag-manage-update-tag'
UpdateTag ==
    /\ \E id \in TagIds :
         SetTagDb(updateTagBase(TagDb, id, "C"))
    /\ UNCHANGED <<linksMade, matches, matchRequest, matchResult>>
    /\ UNCHANGED <<scanVars, harnessVars>>

\* 'tag-manage-move-tag'
MoveTag ==
    /\ \E id \in TagIds, parentId \in TagIds \cup {NULL} :
         SetTagDb(moveTag(TagDb, id, parentId))
    /\ UNCHANGED <<linksMade, matches, matchRequest, matchResult>>
    /\ UNCHANGED <<scanVars, harnessVars>>

\* 'tag-manage-delete-tag'
DeleteTag ==
    /\ \E id \in TagIds :
         LET after == deleteTag([tdb |-> TagDb, photo_tags |-> photo_tags], id)
         IN  /\ SetTagDb(after.tdb)
             /\ photo_tags' = after.photo_tags
    /\ UNCHANGED <<linksMade, matches, matchRequest, matchResult>>
    /\ UNCHANGED <<passVars, harnessVars>>

\* 'tag-manage-save-location' for any tag
SaveLocationOfAny ==
    /\ \E tagId \in TagIds :
         SetTagDb(updateLocation(TagDb, tagId, 10000, 20, 5000))
    /\ UNCHANGED <<linksMade, matches, matchRequest, matchResult>>
    /\ UNCHANGED <<scanVars, harnessVars>>

\* 'link-tag-to-photo' for the first photo and any tag
LinkAnyTagToPhoto ==
    /\ linksMade < MaxTreeLinks
    /\ \E tagId \in TagIds :
         /\ \E r \in photos : r.id = 1
         /\ photo_tags' = linkTagToPhoto(photo_tags, 1, tagId)
    /\ linksMade' = linksMade + 1
    /\ UNCHANGED <<tags, tag_events, tag_locations, tag_faces, tagSeq,
                   matches, matchRequest, matchResult>>
    /\ UNCHANGED <<passVars, harnessVars>>

(***************************************************************************)
(* A tag picked in the tag selector of the photo window ('open-tag-select-  *)
(* window'): the link, and for a landmark its coordinates for a photo       *)
(* without coordinates.                                                    *)
(***************************************************************************)
\* most tags picked in the selector
MaxSelects == 2

\* an applyLandmarkLocationToPhoto that does not look at the photo's coordinates
ApplyToAnyPhoto(photoRows, locations, photoId, tagId) ==
    LET loc == {l \in locations : l.tag_id = tagId}
    IN  IF \A r \in photoRows : r.id # photoId
        THEN photoRows
        ELSE IF loc = {} \/ \E l \in loc : l.lat = NULL \/ l.lng = NULL
        THEN photoRows
        ELSE LET l == CHOOSE x \in loc : TRUE
             IN  {IF r.id = photoId THEN [r EXCEPT !.lat = l.lat, !.lng = l.lng]
                  ELSE r : r \in photoRows}

\* if (!photo || photo.lat !== null || photo.lng !== null) return null;
\* if (!loc || loc.lat === null || loc.lng === null) return null;
\* UPDATE photos SET lat = ?, lng = ? WHERE id = ?
applyLandmarkLocationToPhoto(photoRows, locations, photoId, tagId) ==
    LET loc == {l \in locations : l.tag_id = tagId}
    IN  IF \A r \in photoRows : r.id # photoId
        THEN photoRows
        ELSE IF \E r \in photoRows : r.id = photoId /\ (r.lat # NULL \/ r.lng # NULL)
        THEN photoRows
        ELSE IF loc = {} \/ \E l \in loc : l.lat = NULL \/ l.lng = NULL
        THEN photoRows
        ELSE LET l == CHOOSE x \in loc : TRUE
             IN  {IF r.id = photoId THEN [r EXCEPT !.lat = l.lat, !.lng = l.lng]
                  ELSE r : r \in photoRows}

\* The callback of tagSelectWindow.show: linkTagToPhoto, then, for a tag of
\* category location, applyLandmarkLocationToPhoto.
SelectTag ==
    /\ linksMade < MaxSelects
    /\ \E photoId \in {r.id : r \in photos}, tagId \in TagIds :
         /\ photo_tags' = linkTagToPhoto(photo_tags, photoId, tagId)
         /\ photos' = IF TagRow(TagDb, tagId).category = "location"
                       THEN applyLandmarkLocationToPhoto(photos, tag_locations,
                                                         photoId, tagId)
                       ELSE photos
    /\ linksMade' = linksMade + 1
    /\ UNCHANGED <<tags, tag_events, tag_locations, tag_faces, tagSeq,
                   matches, matchRequest, matchResult>>
    /\ UNCHANGED <<photoSeq, directories, scan, running, scansStarted, faults,
                   upserts, ingested, fullScanDone>>
    /\ UNCHANGED harnessVars

(***************************************************************************)
(* The locator and the inference block applied to one pass's lists: the    *)
(* photos the extraction loop produced from what the parser found, and one *)
(* video.                                                                  *)
(***************************************************************************)
\* longest photo list tried
MaxLocLen == 2

LocTimes == {0, 1800000, 3600000, 3600001}

LocLats == {NULL, 0, 10, 11}

LocLngs == {NULL, 20}

LocExifs == [time : LocTimes \cup {NULL}, lat : LocLats, lng : LocLngs]

LocItem == [directory |-> <<"loc">>, filename |-> "loc"]

\* photoMetaList as the extraction loop builds it (a file without a capture
\* time whose stat fails keeps time null)
LocPhotoList ==
    [i \in 1..Len(locRaw) |-> PhotoMeta(LocItem, MetaFromExif(locRaw[i]), NULL)]

LocVideoList == << VideoMeta(LocItem, locTarget) >>

LocIdle ==
    /\ locRaw = <<>>
    /\ locTarget = NULL
    /\ locPc = "off"
    /\ locOut = [photos |-> <<>>, videos |-> <<>>]
    /\ locNearest = [found |-> FALSE]

LocInit ==
    /\ locRaw \in UNION {[1..n -> LocExifs] : n \in 0..MaxLocLen}
    /\ locTarget \in LocTimes \cup {NULL}
    /\ locPc = "input"
    /\ locOut = [photos |-> <<>>, videos |-> <<>>]
    /\ locNearest = [found |-> FALSE]

ApplyInfer ==
    /\ locPc = "input"
    /\ UNCHANGED <<scanVars, tagVars, geoVars, readVars, auxVars>>
    /\ locPc' = "inferred"
    /\ locOut' = InferLocations(LocPhotoList, LocVideoList)
    /\ UNCHANGED <<locRaw, locTarget, locNearest>>

ApplyNearest ==
    /\ locPc = "input"
    /\ UNCHANGED <<scanVars, tagVars, geoVars, readVars, auxVars>>
    /\ locPc' = "nearest"
    /\ locNearest' = findNearestPhotoByTime(locTarget, LocPhotoList)
    /\ UNCHANGED <<locRaw, locTarget, locOut>>

(***************************************************************************)
(* The geofence evaluator applied to one landmark and one point of its     *)
(* meridian.                                                               *)
(***************************************************************************)
\* centre latitudes tried (0 is the equator: a coordinate, not a missing one)
GeoLats == {NULL, 0, 1000}

GeoLngs == {NULL, 20}

\* radii tried: none stored, negative, zero, 100 m
GeoRadii == {NULL, 0 - 5, 0, 100}

\* the query points: the centre, inside, on the circle, one metre outside
GeoPoints == {[lat |-> x, lng |-> 20] : x \in {0, 100, 101, 900, 1000, 1100, 1101}}

GeoIdle ==
    /\ geoLandmark = [lat |-> NULL, lng |-> NULL, radius |-> NULL]
    /\ geoPoint = [lat |-> 0, lng |-> 20]
    /\ geoPc = "off"
    /\ geoOut = FALSE

GeoInit ==
    /\ geoLandmark \in [lat : GeoLats, lng : GeoLngs, radius : GeoRadii]
    /\ geoPoint \in GeoPoints
    /\ geoPc = "input"
    /\ geoOut = FALSE

ApplyContainsPoint ==
    /\ geoPc = "input"
    /\ geoPc' = "evaluated"
    /\ geoOut' = containsPoint(LandmarkTag(geoLandmark), geoPoint.lat, geoPoint.lng)
    /\ UNCHANGED <<geoLandmark, geoPoint>>
    /\ UNCHANGED <<scanVars, tagVars, locVars, readVars, auxVars>>

(***************************************************************************)
(* Specifications.                                                         *)
(***************************************************************************)
(***************************************************************************)
(* The tag forest of a category (Database.getTreeByCategory for the photo  *)
(* manager, Database.getTagsByCategory for the tag selector).  A forest is *)
(* a set of nodes [tag, children], children a forest.                      *)
(***************************************************************************)
\* most reads of a forest
MaxForestReads == 2

\* rows.filter(r => r.parent_id === parentId)
\*     .map(r => ({ ...r, children: buildTree(r.id) }))
\* The recursion starts at null, so it never enters a cycle of parents.
RECURSIVE buildTree(_, _)
buildTree(rows, parentId) ==
    {[tag |-> t, children |-> buildTree(rows, t.id)] :
        t \in {r \in rows : r.parent_id = parentId}}

\* SELECT * FROM tags WHERE category = ?, then buildTree()
getTreeByCategory(tdb, category) ==
    buildTree({t \in tdb.tags : t.category = category}, NULL)

\* SELECT * FROM tags WHERE category = ?, each row merged with its extension
\* row (which adds columns to a row and leaves id and parent_id), then
\* _buildTree(extended)
getTagsByCategory(tdb, category) ==
    buildTree({t \in tdb.tags : t.category = category}, NULL)

NoForest == [by |-> "none", category |-> "none", forest |-> {}, reads |-> 0]

ForestIdle == treeOut = NoForest

\* one entry of 'manage-get-tags-tree'
ManageGetTagsTree ==
    /\ treeOut.reads < MaxForestReads
    /\ \E category \in Categories :
         treeOut' = [by |-> "getTreeByCategory", category |-> category,
                     forest |-> getTreeByCategory(TagDb, category),
                     reads |-> treeOut.reads + 1]
    /\ UNCHANGED <<scanVars, tagVars, locVars, geoVars, readVars, queueVars, exVars>>

\* the tag selector's _handleGetTags
SelectorGetTags ==
    /\ treeOut.reads < MaxForestReads
    /\ \E category \in Categories :
         treeOut' = [by |-> "getTagsByCategory", category |-> category,
                     forest |-> getTagsByCategory(TagDb, category),
                     reads |-> treeOut.reads + 1]
    /\ UNCHANGED <<scanVars, tagVars, locVars, geoVars, readVars, queueVars, exVars>>

(***************************************************************************)
(* extractMetadata as a race (PhotoFilesManager.extractMetadata): the      *)
(* parser against a timer of 30 s.  Time is counted in units of 10 s.      *)
(***************************************************************************)
\* setTimeout(..., 30000)
ExifTimeout == 3

ExFiles == {"p1.jpg", "p2.jpg", "g1.png", "g2.gif", "g3.bmp", "g4.webp"}

\* exifr.parse returns or throws after 10, 30 or 40 s, or never settles
ExParsers ==
    {[outcome |-> o, at |-> t] : o \in {"returns", "throws"}, t \in {1, 3, 4}}
        \cup {[outcome |-> "never", at |-> 0]}

ExIdle ==
    /\ exFile = "p1.jpg"
    /\ exParser = [outcome |-> "never", at |-> 0]
    /\ exPc = "input"
    /\ exElapsed = 0
    /\ exOut = NoMeta
    /\ exParserCalled = FALSE

ExInit ==
    /\ exFile \in ExFiles
    /\ exParser \in ExParsers
    /\ exPc = "input"
    /\ exElapsed = 0
    /\ exOut = NoMeta
    /\ exParserCalled = FALSE

\* an extractMetadata without the timer
NoTimer(elapsed) == FALSE

\* the timer of timeoutPromise is due
TimerDue(elapsed) == elapsed >= ExifTimeout

ParserDue == exParser.outcome # "never" /\ exElapsed >= exParser.at

\* the call up to  await Promise.race([exifPromise, timeoutPromise])
ExtractCall ==
    /\ exPc = "input"
    /\ IF Ext(exFile) \in {"gif", "bmp", "webp", "png"}
       THEN /\ exPc' = "resolved"
            /\ exOut' = extractMetadata(exFile, FALSE)
            /\ UNCHANGED exParserCalled
       ELSE /\ exPc' = "racing"
            /\ exParserCalled' = TRUE
            /\ UNCHANGED exOut
    /\ UNCHANGED <<exFile, exParser, exElapsed>>
    /\ UNCHANGED <<scanVars, tagVars, locVars, geoVars, readVars, queueVars, treeVars>>

\* exifPromise settles first: with the parser's result, or with null from
\* the catch around exifr.parse
ParserSettles ==
    /\ exPc = "racing"
    /\ ParserDue
    /\ exPc' = "resolved"
    /\ exOut' = extractMetadata(exFile, exParser.outcome = "returns")
    /\ UNCHANGED <<exFile, exParser, exElapsed, exParserCalled>>
    /\ UNCHANGED <<scanVars, tagVars, locVars, geoVars, readVars, queueVars, treeVars>>

\* timeoutPromise settles first: resolve(null)
TimeoutWins ==
    /\ exPc = "racing"
    /\ TimerDue(exElapsed)
    /\ exPc' = "resolved"
    /\ exOut' = extractMetadata(exFile, FALSE)
    /\ UNCHANGED <<exFile, exParser, exElapsed, exParserCalled>>
    /\ UNCHANGED <<scanVars, tagVars, locVars, geoVars, readVars, queueVars, treeVars>>

\* 10 s pass with neither promise settled
ExtractWaits ==
    /\ exPc = "racing"
    /\ ~ParserDue
    /\ exElapsed < ExifTimeout
    /\ exElapsed' = exElapsed + 1
    /\ UNCHANGED <<exFile, exParser, exPc, exOut, exParserCalled>>
    /\ UNCHANGED <<scanVars, tagVars, locVars, geoVars, readVars, queueVars, treeVars>>

(***************************************************************************)
(* Reverse geocoding in the map window (MapManager.getCityName and         *)
(* processGeocodeQueue).  Time is counted in units of 500 ms.  m is the    *)
(* MapManager: [queue, cache, processing, last, lookups, resolved].  A     *)
(* request is [id, key], ids in the order of the getCityName calls.        *)
(***************************************************************************)
\* most getCityName calls in one behaviour
MaxGeoRequests == 3
\* most answers 429 in one behaviour
MaxThrottles == 1
\* the longest a fetch takes, in units
MaxFetchTime == 1
\* the most a timer fires after it is due, in units
MaxLate == 1

\* this.geocodingInterval = 1500
geocodingInterval == 3

\* setTimeout(r, 5000) after a 429
ThrottleWait == 10

\* the cache keys of the points asked for
CacheKeys == {"k1", "k2"}

MapManager ==
    [queue |-> geocodeQueue, cache |-> cityCache, processing |-> isProcessingQueue,
     last |-> lastGeocodingTime, lookups |-> lookups, resolved |-> resolved]

NoLoop == [pc |-> "done", req |-> [id |-> 0, key |-> "k1"], wakeAt |-> 0]

\* a processGeocodeQueue that starts a loop whatever the flag says
GuardOff(m) == Len(m.queue) = 0

\* if (this.isProcessingQueue || this.geocodeQueue.length === 0) return;
GuardReturns(m) == m.processing \/ Len(m.queue) = 0

\* this.lastGeocodingTime = Date.now(); fetch(...)
StartFetch(m, req, t) ==
    [m |-> [m EXCEPT !.last = t,
                     !.lookups = Append(@, [req |-> req.id, at |-> t,
                                            status |-> "pending", answered |-> NULL])],
     loop |-> [pc |-> "fetch", req |-> req, wakeAt |-> t]]

\* The while loop from its head up to its next await, or to its end:
\* [m, loop], loop the activation now suspended, or NoLoop.
RECURSIVE RunLoop(_, _)
RunLoop(m, t) ==
    IF Len(m.queue) = 0
    THEN [m |-> [m EXCEPT !.processing = FALSE], loop |-> NoLoop]
    ELSE LET req  == Head(m.queue)
             rest == [m EXCEPT !.queue = Tail(@)]
         IN  IF req.key \in m.cache
             THEN RunLoop([rest EXCEPT !.resolved = @ \cup {req.id}], t)
             ELSE IF t - m.last < geocodingInterval
             THEN [m |-> rest,
                   loop |-> [pc |-> "interval", req |-> req,
                             wakeAt |-> t + (geocodingInterval - (t - m.last))]]
             ELSE StartFetch(rest, req, t)

\* processGeocodeQueue called: [m, loop]
processGeocodeQueue(m, t) ==
    IF GuardReturns(m) THEN [m |-> m, loop |-> NoLoop]
    ELSE RunLoop([m EXCEPT !.processing = TRUE], t)

\* the 429 branch with the request pushed to the tail
RequeueAtTail(m, req) == [m EXCEPT !.queue = Append(@, req)]

\* this.geocodeQueue.unshift({ lat, lng, cacheKey, resolve })
RequeueAtHead(m, req) == [m EXCEPT !.queue = <<req>> \o @]

\* the last lookup answered with status at time t
Answered(m, status, t) ==
    [m EXCEPT !.lookups[Len(m.lookups)] =
                  [@ EXCEPT !.status = status, !.answered = t]]

SetMapManager(m) ==
    /\ geocodeQueue' = m.queue
    /\ cityCache' = m.cache
    /\ isProcessingQueue' = m.processing
    /\ lastGeocodingTime' = m.last
    /\ lookups' = m.lookups
    /\ resolved' = m.resolved

\* the suspended activations after one of them (old) went on to become new
Suspended(old, new) == (loops \ {old}) \cup (IF new = NoLoop THEN {} ELSE {new})

\* Date.now() lies far beyond the interval when the first request comes.
QueueIdle ==
    /\ now = geocodingInterval
    /\ geocodeQueue = <<>>
    /\ cityCache = {}
    /\ isProcessingQueue = FALSE
    /\ lastGeocodingTime = 0
    /\ loops = {}
    /\ lookups = <<>>
    /\ resolved = {}
    /\ geoRequests = 0
    /\ throttled = 0

AuxIdle == QueueIdle /\ ExIdle /\ ForestIdle

\* getCityName(lat, lng)
GetCityName ==
    /\ geoRequests < MaxGeoRequests
    /\ geoRequests' = geoRequests + 1
    /\ \E key \in CacheKeys :
         LET req == [id |-> geoRequests + 1, key |-> key]
         IN  IF key \in cityCache
             THEN /\ resolved' = resolved \cup {req.id}
                  /\ UNCHANGED <<geocodeQueue, cityCache, isProcessingQueue,
                                 lastGeocodingTime, loops, lookups>>
             ELSE LET run == processGeocodeQueue(
                                 [MapManager EXCEPT !.queue = Append(@, req)], now)
                  IN  /\ SetMapManager(run.m)
                      /\ loops' = Suspended(NoLoop, run.loop)
    /\ UNCHANGED <<now, throttled>>
    /\ UNCHANGED <<scanVars, tagVars, locVars, geoVars, readVars, exVars, treeVars>>

\* the timer of the interval wait fires: the fetch starts
IntervalOver ==
    /\ \E l \in loops :
         /\ l.pc = "interval"
         /\ now >= l.wakeAt
         /\ LET run == StartFetch(MapManager, l.req, now)
            IN  /\ SetMapManager(run.m)
                /\ loops' = Suspended(l, run.loop)
    /\ UNCHANGED <<now, geoRequests, throttled>>
    /\ UNCHANGED <<scanVars, tagVars, locVars, geoVars, readVars, exVars, treeVars>>

\* the fetch is answered with a city name
AnswerCity ==
    /\ \E l \in loops :
         /\ l.pc = "fetch"
         /\ LET m   == Answered(MapManager, "ok", now)
                run == RunLoop([m EXCEPT !.cache = @ \cup {l.req.key},
                                         !.resolved = @ \cup {l.req.id}], now)
            IN  /\ SetMapManager(run.m)
                /\ loops' = Suspended(l, run.loop)
    /\ UNCHANGED <<now, geoRequests, throttled>>
    /\ UNCHANGED <<scanVars, tagVars, locVars, geoVars, readVars, exVars, treeVars>>

\* the fetch fails, or is answered with an error other than 429
AnswerUnknown ==
    /\ \E l \in loops :
         /\ l.pc = "fetch"
         /\ LET m   == Answered(MapManager, "error", now)
                run == RunLoop([m EXCEPT !.resolved = @ \cup {l.req.id}], now)
            IN  /\ SetMapManager(run.m)
                /\ loops' = Suspended(l, run.loop)
    /\ UNCHANGED <<now, geoRequests, throttled>>
    /\ UNCHANGED <<scanVars, tagVars, locVars, geoVars, readVars, exVars, treeVars>>

\* the fetch is answered 429: requeue, then wait
AnswerTooMany ==
    /\ throttled < MaxThrottles
    /\ throttled' = throttled + 1
    /\ \E l \in loops :
         /\ l.pc = "fetch"
         /\ SetMapManager(RequeueAtHead(Answered(MapManager, "429", now), l.req))
         /\ loops' = Suspended(l, [pc |-> "backoff", req |-> l.req,
                                    wakeAt |-> now + ThrottleWait])
    /\ UNCHANGED <<now, geoRequests>>
    /\ UNCHANGED <<scanVars, tagVars, locVars, geoVars, readVars, exVars, treeVars>>

\* the timer after a 429 fires: continue
BackoffOver ==
    /\ \E l \in loops :
         /\ l.pc = "backoff"
         /\ now >= l.wakeAt
         /\ LET run == RunLoop(MapManager, now)
            IN  /\ SetMapManager(run.m)
                /\ loops' = Suspended(l, run.loop)
    /\ UNCHANGED <<now, geoRequests, throttled>>
    /\ UNCHANGED <<scanVars, tagVars, locVars, geoVars, readVars, exVars, treeVars>>

\* Time passes while a timer runs (it fires when due, or a little after),
\* while a fetch is under way, and until the interval after the last fetch
\* is over.
MayPass(pending, last) ==
    \/ \E l \in pending :
          \/ l.pc \in {"interval", "backoff"} /\ now < l.wakeAt + MaxLate
          \/ l.pc = "fetch" /\ now < l.wakeAt + MaxFetchTime
    \/ pending = {} /\ now < last + geocodingInterval

QueueTick ==
    /\ MayPass(loops, lastGeocodingTime)
    /\ \A l \in loops : l.pc \in {"interval", "backoff"} => now < l.wakeAt + MaxLate
    /\ \A l \in loops : l.pc = "fetch" => now < l.wakeAt + MaxFetchTime
    /\ now' = now + 1
    /\ UNCHANGED <<geocodeQueue, cityCache, isProcessingQueue, lastGeocodingTime,
                   loops, lookups, resolved, geoRequests, throttled>>
    /\ UNCHANGED <<scanVars, tagVars, locVars, geoVars, readVars, exVars, treeVars>>

(***************************************************************************)
(* Reverse geocoding in the main process (main.js, 'get-city-name').  The  *)
(* module keeps its own cityCache, lastGeocodingTime and geocodingInterval *)
(* (1500 as well); they are the variables of the same names.  Every call   *)
(* of the handler is an activation of its own: loops holds the calls       *)
(* suspended at an await.                                                  *)
(***************************************************************************)
\* ipcMain.handle('get-city-name') up to its first await
InvokeGetCityName ==
    /\ geoRequests < MaxGeoRequests
    /\ geoRequests' = geoRequests + 1
    /\ \E key \in CacheKeys :
         LET req == [id |-> geoRequests + 1, key |-> key]
         IN  IF key \in cityCache
             THEN /\ resolved' = resolved \cup {req.id}
                  /\ UNCHANGED <<lastGeocodingTime, loops, lookups>>
             ELSE IF now - lastGeocodingTime < geocodingInterval
             THEN /\ loops' = loops \cup
                          {[pc |-> "interval", req |-> req,
                            wakeAt |-> now + (geocodingInterval
                                              - (now - lastGeocodingTime))]}
                  /\ UNCHANGED <<lastGeocodingTime, lookups, resolved>>
             ELSE LET run == StartFetch(MapManager, req, now)
                  IN  /\ lastGeocodingTime' = run.m.last
                      /\ lookups' = run.m.lookups
                      /\ loops' = loops \cup {run.loop}
                      /\ UNCHANGED resolved
    /\ UNCHANGED <<now, geocodeQueue, cityCache, isProcessingQueue, throttled>>
    /\ UNCHANGED <<scanVars, tagVars, locVars, geoVars, readVars, exVars, treeVars>>

\* the timer of a call's wait fires: lastGeocodingTime = Date.now(); fetch
HandlerWaitOver ==
    /\ \E l \in loops :
         /\ l.pc = "interval"
         /\ now >= l.wakeAt
         /\ LET run == StartFetch(MapManager, l.req, now)
            IN  /\ lastGeocodingTime' = run.m.last
                /\ lookups' = run.m.lookups
                /\ loops' = Suspended(l, run.loop)
    /\ UNCHANGED <<now, geocodeQueue, cityCache, isProcessingQueue, resolved,
                   geoRequests, throttled>>
    /\ UNCHANGED <<scanVars, tagVars, locVars, geoVars, readVars, exVars, treeVars>>

\* a call's fetch is answered with a city name: cached and returned
HandlerAnswerCity ==
    /\ \E l \in loops :
         /\ l.pc = "fetch"
         /\ cityCache' = cityCache \cup {l.req.key}
         /\ resolved' = resolved \cup {l.req.id}
         /\ loops' = loops \ {l}
    /\ UNCHANGED <<now, geocodeQueue, isProcessingQueue, lastGeocodingTime, lookups,
                   geoRequests, throttled>>
    /\ UNCHANGED <<scanVars, tagVars, locVars, geoVars, readVars, exVars, treeVars>>

\* a call's fetch fails or is answered with an error (429 among them):
\* 'Unknown Location' is returned
HandlerAnswerUnknown ==
    /\ \E l \in loops :
         /\ l.pc = "fetch"
         /\ resolved' = resolved \cup {l.req.id}
         /\ loops' = loops \ {l}
    /\ UNCHANGED <<now, geocodeQueue, cityCache, isProcessingQueue, lastGeocodingTime,
                   lookups, geoRequests, throttled>>
    /\ UNCHANGED <<scanVars, tagVars, locVars, geoVars, readVars, exVars, treeVars>>

(***************************************************************************)
(* The read paths of the catalog (Database.js).  A path is <<base,         *)
(* directory, filename>>: base "photoDir" for the photo directory of the   *)
(* settings, "cwd" for a relative path resolved by the process.  The       *)
(* catalog's directories are relative (the scanner stores relative paths). *)
(***************************************************************************)
\* most read path calls in one behaviour
MaxReads == 3

\* the candidates of addFullPathToPhoto for a row with a relative directory
PathCandidates(photo) ==
    IF photo.directory # <<>>
    THEN << <<"photoDir", photo.directory, photo.filename>>,
            <<"cwd", photo.directory, photo.filename>>,
            <<"photoDir", <<>>, photo.filename>> >>
    ELSE << <<"photoDir", <<>>, photo.filename>> >>

\* fileExistsCached: [exists, cache].  A path in the map is answered from
\* the map; any other is looked up with fs.existsSync and remembered.
fileExistsCached(cache, files, filePath) ==
    IF filePath \in DOMAIN cache
    THEN [exists |-> cache[filePath], cache |-> cache]
    ELSE [exists |-> filePath \in files,
          cache  |-> [q \in DOMAIN cache \cup {filePath} |->
                         IF q = filePath THEN filePath \in files ELSE cache[q]]]

\* photo.fullPath = null
NoPath == <<>>

\* uniqueCandidates.find(candidate => this.fileExistsCached(candidate))
RECURSIVE FindExisting(_, _, _, _)
FindExisting(cache, files, candidates, i) ==
    IF i > Len(candidates) THEN [fullPath |-> NoPath, cache |-> cache]
    ELSE LET hit == fileExistsCached(cache, files, candidates[i])
         IN  IF hit.exists THEN [fullPath |-> candidates[i], cache |-> hit.cache]
             ELSE FindExisting(hit.cache, files, candidates, i + 1)

\* addFullPathToPhoto: [photo, cache], photo carrying fullPath and isMissing
addFullPathToPhoto(cache, files, photo) ==
    LET found == FindExisting(cache, files, PathCandidates(photo), 1)
    IN  [photo |-> [id |-> photo.id, directory |-> photo.directory,
                    filename |-> photo.filename, fullPath |-> found.fullPath,
                    isMissing |-> found.fullPath = NoPath],
         cache |-> found.cache]

\* addFullPathToPhotos over the rows of ids[i..], in the order of the result
RECURSIVE addFullPathToPhotos(_, _, _, _, _)
addFullPathToPhotos(cache, files, rows, ids, i) ==
    IF i > Len(ids) THEN [photos |-> {}, cache |-> cache]
    ELSE LET one  == addFullPathToPhoto(cache, files,
                                        CHOOSE r \in rows : r.id = ids[i])
             rest == addFullPathToPhotos(one.cache, files, rows, ids, i + 1)
         IN  [photos |-> {one.photo} \cup rest.photos, cache |-> rest.cache]

\* photos.filter(photo => photo && photo.fullPath && !photo.isMissing)
filterExistingPhotos(enriched) ==
    {a \in enriched : a.fullPath # NoPath /\ ~a.isMissing}

\* filterExistingPhotos(addFullPathToPhotos(rows)): [assets, cache]
ExistingOf(cache, files, rows) ==
    LET all == addFullPathToPhotos(cache, files, rows,
                                   Ascending({r.id : r \in rows}), 1)
    IN  [assets |-> filterExistingPhotos(all.photos), cache |-> all.cache]

getAllPhotos(cache, files, photoRows) == ExistingOf(cache, files, photoRows)

getPhotoByPath(cache, files, photoRows, directory, filename) ==
    ExistingOf(cache, files, {r \in photoRows : SamePath(r, directory, filename)})

\* WHERE time >= ? AND time <= ?   (a NULL time matches nothing)
queryPhotosByTimeRange(cache, files, photoRows, startTime, endTime) ==
    ExistingOf(cache, files,
               {r \in photoRows :
                   r.time # NULL /\ r.time >= startTime /\ r.time <= endTime})

queryPhotosByDirectory(cache, files, photoRows, dirPath) ==
    ExistingOf(cache, files, {r \in photoRows : r.directory = dirPath})

\* WHERE lat <= ? AND lat >= ? AND lng <= ? AND lng >= ?
queryPhotosByArea(cache, files, photoRows, north, south, east, west) ==
    ExistingOf(cache, files,
               {r \in photoRows :
                   /\ r.lat # NULL /\ r.lng # NULL
                   /\ r.lat <= north /\ r.lat >= south
                   /\ r.lng <= east /\ r.lng >= west})

\* photos JOIN photo_tags WHERE tag_id IN (tagIds); [] for no tag ids
getPhotosByTagIds(cache, files, photoRows, links, tagIds) ==
    IF tagIds = {} THEN [assets |-> {}, cache |-> cache]
    ELSE ExistingOf(cache, files,
                    {r \in photoRows :
                        \E t \in tagIds : <<r.id, t>> \in links})

\* The files of the catalogued photos, all on disk after the scan.
RealFiles == {<<"photoDir", <<>>, "p1.jpg">>, <<"photoDir", <<"a">>, "p2.jpg">>}

NoRead == [call |-> "none", assets |-> {}]

ReadIdle ==
    /\ disk = RealFiles
    /\ pathExistsCache = [q \in {} |-> FALSE]
    /\ readOut = NoRead
    /\ readsDone = 0

\* The catalog after a scan ingested p1.jpg and a/p2.jpg, with one Landmark
\* tag linked to the first photo.
ReadCatalog ==
    InsertMany([photos |-> {}, seq |-> 0, photo_tags |-> {}],
               << [directory |-> <<>>, filename |-> "p1.jpg", time |-> 7200000,
                   lat |-> 10, lng |-> 20, type |-> "photo"],
                  [directory |-> <<"a">>, filename |-> "p2.jpg", time |-> 9900000,
                   lat |-> NULL, lng |-> NULL, type |-> "photo"] >>, 2)

ReadInit ==
    /\ photos = ReadCatalog.photos
    /\ photoSeq = ReadCatalog.seq
    /\ photo_tags = linkTagToPhoto({}, 1, 1)
    /\ directories = updateScanTime(addDirectory(addDirectory({}, <<>>), <<"a">>), <<>>)
    /\ scan = [s \in Callers |-> IdleScan]
    /\ running = "none"
    /\ scansStarted = 0
    /\ faults = 0
    /\ upserts = 0
    /\ ingested = {<<r.directory, r.filename>> : r \in ReadCatalog.photos}
    /\ fullScanDone = FALSE
    /\ LocIdle
    /\ GeoIdle
    /\ ReadIdle
    /\ AuxIdle
    /\ SetTagInit(saveTag(EmptyTagDb, "City", "location", NULL, 0))

\* a file of the catalog is deleted from disk
DeleteFile ==
    /\ \E f \in disk : disk' = disk \ {f}
    /\ UNCHANGED <<pathExistsCache, readOut, readsDone>>
    /\ UNCHANGED <<scanVars, tagVars, locVars, geoVars, auxVars>>

\* a deleted file is put back
RestoreFile ==
    /\ \E f \in RealFiles \ disk : disk' = disk \cup {f}
    /\ UNCHANGED <<pathExistsCache, readOut, readsDone>>
    /\ UNCHANGED <<scanVars, tagVars, locVars, geoVars, auxVars>>

\* a read path returns res
Returns(call, res) ==
    /\ readsDone < MaxReads
    /\ readsDone' = readsDone + 1
    /\ readOut' = [call |-> call, assets |-> res.assets]
    /\ pathExistsCache' = res.cache
    /\ UNCHANGED disk
    /\ UNCHANGED <<scanVars, tagVars, locVars, geoVars, auxVars>>

GetAllPhotos ==
    Returns("getAllPhotos", getAllPhotos(pathExistsCache, disk, photos))

GetPhotoByPath ==
    \E r \in photos :
        Returns("getPhotoByPath",
                getPhotoByPath(pathExistsCache, disk, photos, r.directory, r.filename))

QueryPhotosByTimeRange ==
    \E range \in {<<0, 7200000>>, <<7200001, 9900000>>} :
        Returns("queryPhotosByTimeRange",
                queryPhotosByTimeRange(pathExistsCache, disk, photos, range[1], range[2]))

QueryPhotosByDirectory ==
    \E dirPath \in {<<>>, <<"a">>} :
        Returns("queryPhotosByDirectory",
                queryPhotosByDirectory(pathExistsCache, disk, photos, dirPath))

QueryPhotosByArea ==
    Returns("queryPhotosByArea",
            queryPhotosByArea(pathExistsCache, disk, photos, 90, 0, 180, 0))

GetPhotosByTagIds ==
    \E tagIds \in {{}, {1}} :
        Returns("getPhotosByTagIds",
                getPhotosByTagIds(pathExistsCache, disk, photos, photo_tags, tagIds))

vars == <<scanVars, harnessVars, tagVars>>

Init == ScanInit /\ LocIdle /\ GeoIdle /\ ReadIdle /\ AuxIdle /\ TagInit

Next ==
    \/ UpsertPhoto
    \/ \E s \in Callers : StartScan(s)
    \/ \E s \in Callers : WalkStep(s)
    \/ \E s \in Callers : WalkDone(s)
    \/ \E s \in Callers : ExtractStep(s)
    \/ \E s \in Callers : ResumeExtract(s)
    \/ \E s \in Callers : FinishScan(s)

Spec == Init /\ [][Next]_vars

\* The walk is synchronous code: once started it is run to its return.
FairSpec == Spec /\ \A s \in Callers : WF_vars(WalkStep(s) \/ WalkDone(s))

\* The scan's loop is over and the code after it has not run yet: the state
\* in which FinishScan(s), and nothing else of the scan, is enabled.
LoopOver(s) ==
    /\ running = s
    /\ scan[s].pc = "extract"
    /\ scan[s].idx > Len(scan[s].fileList)

\* The event loop runs every continuation that is ready, extractMetadata
\* always settles, and the synchronous code after the loop runs to its end:
\* []<>~LoopOver(s) is weak fairness of FinishScan(s).
NotifySpec ==
    Spec /\ \A s \in Callers :
               /\ WF_vars(WalkStep(s) \/ WalkDone(s))
               /\ WF_vars(ExtractStep(s))
               /\ WF_vars(ResumeExtract(s))
               /\ []<>(~LoopOver(s))

LocatorInit == ScanInit /\ LocInit /\ GeoIdle /\ ReadIdle /\ AuxIdle /\ TagInit

LocatorNext == ApplyInfer \/ ApplyNearest

LocatorSpec == LocatorInit /\ [][LocatorNext]_vars

\* The catalog after a scan that found the photos of Shots in the root.
MatchPhotos ==
    {PhotoRow(i, [directory |-> <<>>, filename |-> Shots[i].filename,
                  time |-> Shots[i].time, lat |-> Shots[i].lat,
                  lng |-> Shots[i].lng, type |-> "photo"]) : i \in 1..Len(Shots)}

MatchInit ==
    /\ photos = MatchPhotos
    /\ photoSeq = Len(Shots)
    /\ photo_tags = {}
    /\ directories = updateScanTime(addDirectory({}, <<>>), <<>>)
    /\ scan = [s \in Callers |-> IdleScan]
    /\ running = "none"
    /\ scansStarted = 0
    /\ faults = 0
    /\ upserts = 0
    /\ ingested = {<<r.directory, r.filename>> : r \in MatchPhotos}
    /\ fullScanDone = FALSE
    /\ LocIdle
    /\ GeoIdle
    /\ ReadIdle
    /\ AuxIdle
    /\ TagInit

MatchNext ==
    \/ AddTag
    \/ SaveLocation
    \/ SaveEvent
    \/ SaveEventLocation
    \/ LinkTagToPhoto
    \/ MatchTagsForPhoto

MatchSpec == MatchInit /\ [][MatchNext]_vars

\* A catalog whose photos have no coordinates (with a remark and a like), one
\* coordinate, and both.
LandmarkPhotos ==
    {[PhotoRow(1, [directory |-> <<>>, filename |-> "m1.jpg", time |-> 1000,
                   lat |-> NULL, lng |-> NULL, type |-> "photo"])
         EXCEPT !.remark = "note", !.like = 1],
     PhotoRow(2, [directory |-> <<>>, filename |-> "m2.jpg", time |-> 2000,
                  lat |-> 7, lng |-> 0, type |-> "photo"]),
     PhotoRow(3, [directory |-> <<>>, filename |-> "m3.jpg", time |-> NULL,
                  lat |-> 5, lng |-> 6, type |-> "photo"])}

LandmarkInit ==
    /\ photos = LandmarkPhotos
    /\ photoSeq = 3
    /\ photo_tags = {}
    /\ directories = updateScanTime(addDirectory({}, <<>>), <<>>)
    /\ scan = [s \in Callers |-> IdleScan]
    /\ running = "none"
    /\ scansStarted = 0
    /\ faults = 0
    /\ upserts = 0
    /\ ingested = {<<r.directory, r.filename>> : r \in LandmarkPhotos}
    /\ fullScanDone = FALSE
    /\ LocIdle
    /\ GeoIdle
    /\ ReadIdle
    /\ AuxIdle
    /\ TagInit

LandmarkNext ==
    \/ SaveTagNamed
    \/ DbAddTag
    \/ SaveLocationOfAny
    \/ SelectTag

LandmarkSpec == LandmarkInit /\ [][LandmarkNext]_vars

\* Tags created under any parent, and the forests read.
ForestNext ==
    \/ SaveTagNamed
    \/ DbAddTag
    \/ ManageGetTagsTree
    \/ SelectorGetTags

ForestSpec == Init /\ [][ForestNext]_vars

\* The tag handlers on a catalog that holds photos.
TreeNext ==
    \/ SaveTagNamed
    \/ DbAddTag
    \/ UpdateTag
    \/ MoveTag
    \/ DeleteTag
    \/ SaveLocationOfAny
    \/ SaveEvent
    \/ SaveEventLocation
    \/ LinkAnyTagToPhoto

TreeSpec == MatchInit /\ [][TreeNext]_vars

GeoSpecInit == ScanInit /\ LocIdle /\ GeoInit /\ ReadIdle /\ AuxIdle /\ TagInit

GeoNext == ApplyContainsPoint

GeoSpec == GeoSpecInit /\ [][GeoNext]_vars

(***************************************************************************)
(* Re-ingestion of catalogued photos that carry a note, a like and tags.   *)
(***************************************************************************)
\* most re-ingesting calls in a run
MaxReingests == 2

\* the catalogued files the user annotates and the scanner meets again
ReFiles == {"m1.jpg", "m2.jpg"}

\* the file as the scanner reads it again
Reread(filename) ==
    LET shot == CHOOSE i \in 1..Len(Shots) : Shots[i].filename = filename
    IN  [directory |-> <<>>, filename |-> filename, time |-> Shots[shot].time,
         lat |-> Shots[shot].lat, lng |-> Shots[shot].lng, type |-> "photo"]

ReBatches == {<<Reread("m1.jpg")>>, <<Reread("m2.jpg"), Reread("m1.jpg")>>}

\* 'save-photo-remark'
SavePhotoRemark ==
    /\ \E filename \in ReFiles :
         photos' = savePhotoRemark(photos, <<>>, filename, "note")
    /\ UNCHANGED <<photoSeq, photo_tags, directories, scan, running, scansStarted,
                   faults, upserts, ingested, fullScanDone>>
    /\ UNCHANGED <<harnessVars, tagVars>>

\* 'toggle-photo-like'
UpdatePhotoLike ==
    /\ \E filename \in ReFiles, like \in BOOLEAN :
         photos' = updatePhotoLike(photos, <<>>, filename, like)
    /\ UNCHANGED <<photoSeq, photo_tags, directories, scan, running, scansStarted,
                   faults, upserts, ingested, fullScanDone>>
    /\ UNCHANGED <<harnessVars, tagVars>>

\* upsertPhoto of a file that is in the catalog
ReingestOne ==
    /\ upserts < MaxReingests
    /\ upserts' = upserts + 1
    /\ \E filename \in ReFiles :
         LET cat == upsertPhoto(Catalog, Reread(filename))
         IN  /\ isFileExists(photos, <<>>, filename)
             /\ photos' = cat.photos
             /\ photoSeq' = cat.seq
             /\ photo_tags' = cat.photo_tags
    /\ UNCHANGED <<directories, scan, running, scansStarted, faults, ingested,
                   fullScanDone>>
    /\ UNCHANGED <<harnessVars, tagVars>>

\* batchInsertPhotos of files that are in the catalog
ReingestBatch ==
    /\ upserts < MaxReingests
    /\ upserts' = upserts + 1
    /\ \E items \in ReBatches, failAt \in 0..1 :
         LET res == batchInsertPhotos(Catalog, items, failAt)
         IN  /\ photos' = res.cat.photos
             /\ photoSeq' = res.cat.seq
             /\ photo_tags' = res.cat.photo_tags
    /\ UNCHANGED <<directories, scan, running, scansStarted, faults, ingested,
                   fullScanDone>>
    /\ UNCHANGED <<harnessVars, tagVars>>

ReingestNext ==
    \/ AddTag
    \/ LinkTagToPhoto
    \/ SavePhotoRemark
    \/ UpdatePhotoLike
    \/ ReingestOne
    \/ ReingestBatch

ReingestSpec == MatchInit /\ [][ReingestNext]_vars

ReadNext ==
    \/ DeleteFile
    \/ RestoreFile
    \/ GetAllPhotos
    \/ GetPhotoByPath
    \/ QueryPhotosByTimeRange
    \/ QueryPhotosByDirectory
    \/ QueryPhotosByArea
    \/ GetPhotosByTagIds

ReadSpec == ReadInit /\ [][ReadNext]_vars

QueueNext ==
    \/ GetCityName
    \/ IntervalOver
    \/ AnswerCity
    \/ AnswerUnknown
    \/ AnswerTooMany
    \/ BackoffOver
    \/ QueueTick

ExtractInit ==
    ScanInit /\ LocIdle /\ GeoIdle /\ ReadIdle /\ QueueIdle /\ ExInit /\ ForestIdle /\ TagInit

ExtractNext ==
    \/ ExtractCall
    \/ ParserSettles
    \/ TimeoutWins
    \/ ExtractWaits

\* Promises that are settled run their continuation; time passes.
ExtractSpec ==
    /\ ExtractInit
    /\ [][ExtractNext]_vars
    /\ WF_vars(ExtractNext)

HandlerNext ==
    \/ InvokeGetCityName
    \/ HandlerWaitOver
    \/ HandlerAnswerCity
    \/ HandlerAnswerUnknown
    \/ QueueTick

HandlerSpec == Init /\ [][HandlerNext]_vars

\* Timers fire and fetches are answered; nothing makes a caller call.
QueueSpec ==
    /\ Init
    /\ [][QueueNext]_vars
    /\ WF_vars(IntervalOver)
    /\ WF_vars(BackoffOver)
    /\ WF_vars(AnswerCity \/ AnswerUnknown \/ AnswerTooMany)
    /\ WF_vars(QueueTick)

(***************************************************************************)
(* Properties of the scan pass and the catalog.                            *)
(***************************************************************************)
RowsAt(directory, filename) == {r \in photos : SamePath(r, directory, filename)}

\* C1: after any sequence of scans and upsertPhoto/batchInsertPhotos calls,
\* every (directory, filename) pair ever ingested has exactly one row in
\* photos, and no pair has more than one.
C1_OneRowPerPath ==
    /\ \A pair \in ingested : Cardinality(RowsAt(pair[1], pair[2])) = 1
    /\ \A r \in photos : Cardinality(RowsAt(r.directory, r.filename)) = 1

\* a pair was written more than once: a row has been replaced
C1_Witness ==
    /\ photos # {}
    /\ photoSeq > Cardinality(photos)
    /\ \E s \in Callers : scan[s].pc = "returned" /\ scan[s].result.newPhotos > 0

\* C2: a scan with skipScanned = true that starts after a scan with
\* skipScanned = true has returned (the tree is unchanged) returns
\* newPhotos = 0, newVideos = 0 and skippedDirectory = true.
C2_IdempotentRescan ==
    \A s \in Callers :
        (scan[s].pc = "returned" /\ scan[s].skipScanned /\ scan[s].afterFull)
            => /\ scan[s].result.newPhotos = 0
               /\ scan[s].result.newVideos = 0
               /\ scan[s].result.skippedDirectory

NoDuplicates(seq) == \A i, j \in 1..Len(seq) : seq[i] = seq[j] => i = j

\* C3: every walk terminates (also over the link a/up back to the root), and
\* within one walk readdirSync is called at most once per real directory.
C3_WalkTerminatesReadingOnce ==
    /\ [](\A s \in Callers : NoDuplicates(scan[s].reads))
    /\ \A s \in Callers : (scan[s].pc = "walk") ~> (scan[s].pc # "walk")

\* a walk has returned after reading a/, the directory holding the link
C3_Witness ==
    \E s \in Callers :
        /\ scan[s].pc = "extract"
        /\ scan[s].reads = <<"root", "a", "b">>

\* C4: at most one scan is in flight at any time.
C4_AtMostOneScanInFlight ==
    Cardinality({s \in Callers : scan[s].pc \in InFlight}) <= 1

MetaPaths(sc) ==
    {<<m.directory, m.filename>> :
        m \in SeqToSet(sc.photoMetaList) \cup SeqToSet(sc.videoMetaList)}

\* C5: a file whose processing throws does not end the scan: the scan rejects
\* only when the batch write throws, and a scan that returns has visited
\* every walked file, has counted each failed file as skipped and none of
\* them as new.
C5_FileFailureIsolated ==
    \A s \in Callers :
        LET sc == scan[s]
        IN  /\ sc.pc = "rejected" => sc.batchFailAt # 0
            /\ sc.pc = "returned" =>
                 /\ sc.result.totalPhotos + sc.result.totalVideos = Len(sc.fileList)
                 /\ sc.result.newPhotos + sc.result.newVideos + sc.result.skippedFiles
                        = Len(sc.fileList)
                 /\ Cardinality(sc.failed) <= sc.result.skippedFiles
                 /\ \A i \in sc.failed :
                        <<sc.fileList[i].directory, sc.fileList[i].filename>>
                            \notin MetaPaths(sc)

\* a scan returned after a file threw, with files after it ingested
C5_Witness ==
    \E s \in Callers :
        /\ scan[s].pc = "returned"
        /\ \E i \in scan[s].failed : i < Len(scan[s].fileList)
        /\ scan[s].result.newPhotos + scan[s].result.newVideos > 0

\* C6: when a row of the batch fails, photos is as it was before the call
\* (no row of the batch, the earlier rows unchanged) and the scan rejects.
C6_BatchAllOrNothing ==
    [][\A s \in Callers :
          (scan[s].pc = "extract" /\ scan'[s].pc # "extract"
             /\ scan'[s].batchFailAt # 0)
              => /\ photos' = photos
                 /\ photoSeq' = photoSeq
                 /\ scan'[s].pc = "rejected"]_vars

\* a batch failed at its second row or later, over a catalog that held rows
C6_Witness ==
    \E s \in Callers :
        /\ scan[s].pc = "rejected"
        /\ scan[s].batchFailAt >= 2
        /\ photos # {}

(***************************************************************************)
(* Properties of the locator and of location inference.                    *)
(***************************************************************************)
\* the candidates with a capture time, a latitude and a longitude
Candidates(photoList) ==
    {j \in 1..Len(photoList) :
        photoList[j].time # NULL /\ photoList[j].lat # NULL /\ photoList[j].lng # NULL}

Delta(target, photoList, j) == Abs(target - photoList[j].time)

\* the candidates nearest in time to the target
Nearest(target, photoList) ==
    {j \in Candidates(photoList) :
        \A k \in Candidates(photoList) :
            Delta(target, photoList, j) <= Delta(target, photoList, k)}

\* what C7 promises for one asset of the pass
InferredAsPromised(before, after, photoList) ==
    IF before.lat # NULL /\ before.lng # NULL THEN after = before
    ELSE IF /\ before.time # NULL
            /\ \E j \in Candidates(photoList) :
                 Delta(before.time, photoList, j) <= ONE_HOUR_MS
         THEN \E j \in Nearest(before.time, photoList) :
                 /\ after.lat = photoList[j].lat
                 /\ after.lng = photoList[j].lng
                 /\ after.geoSource = "inferred"
         ELSE after = before

\* C7: in a scan pass an asset without coordinates receives the coordinates
\* of its nearest-in-time eligible geotagged photo if and only if that
\* photo is at most one hour (3 600 000 ms) away; when the nearest candidate
\* is further away or there is none, the asset's coordinates stay empty.
C7_InferWithinOneHour ==
    locPc = "inferred" =>
        /\ Len(locOut.photos) = Len(LocPhotoList)
        /\ \A i \in 1..Len(LocPhotoList) :
             InferredAsPromised(LocPhotoList[i], locOut.photos[i], LocPhotoList)
        /\ InferredAsPromised(LocVideoList[1], locOut.videos[1], LocPhotoList)

\* a video exactly one hour away from the only geotagged photo is located
C7_Witness ==
    /\ locPc = "inferred"
    /\ Len(locRaw) = 1
    /\ locRaw[1] = [time |-> 0, lat |-> 10, lng |-> 20]
    /\ locTarget = ONE_HOUR_MS
    /\ locOut.videos[1].geoSource = "inferred"
    /\ locOut.videos[1].lat = 10

\* C8: findNearestPhotoByTime returns an eligible candidate whose absolute
\* time difference to the target is minimal over all eligible candidates,
\* and of several candidates at that minimum the first of the list.
C8_NearestFirstOnTies ==
    locPc = "nearest" =>
        IF locTarget = NULL \/ Candidates(LocPhotoList) = {}
        THEN ~locNearest.found
        ELSE /\ locNearest.found
             /\ locNearest.at \in Nearest(locTarget, LocPhotoList)
             /\ \A j \in Nearest(locTarget, LocPhotoList) : locNearest.at <= j
             /\ locNearest.photo = LocPhotoList[locNearest.at]
             /\ locNearest.timeDiff = Delta(locTarget, LocPhotoList, locNearest.at)

\* two different candidates half an hour before and after the target
C8_Witness ==
    /\ locPc = "nearest"
    /\ locTarget = 1800000
    /\ Len(locRaw) = 2
    /\ locRaw[1] = [time |-> 0, lat |-> 10, lng |-> 20]
    /\ locRaw[2] = [time |-> 3600000, lat |-> 11, lng |-> 20]
    /\ locNearest.found
    /\ locNearest.at = 1

(***************************************************************************)
(* Properties of the event matcher.                                        *)
(***************************************************************************)
\* the step is a call of 'match-tags-for-photo'
IsMatchStep == matches' = matches + 1

MatchedPhoto == CHOOSE r \in photos : r.id = matchRequest'.photoId

HasTimeAndPlace(photo) == photo.time # NULL /\ photo.lat # NULL /\ photo.lng # NULL

\* the circle of a tag contains the photo's point
InCircle(tagId, photo) ==
    \E l \in tag_locations :
        /\ l.tag_id = tagId
        /\ l.lat # NULL /\ l.lng # NULL /\ l.radius # NULL
        /\ l.radius > 0
        /\ Abs(photo.lat - l.lat) <= l.radius

\* the event's window contains the photo's time and the circle of its
\* landmark contains the photo's point
Accepts(eventId, photo) ==
    \E e \in tag_events :
        /\ e.tag_id = eventId
        /\ e.start_time # NULL /\ e.end_time # NULL
        /\ e.start_time <= photo.time /\ photo.time <= e.end_time
        /\ e.location_tag_id # NULL
        /\ e.location_tag_id \in TagIds
        /\ InCircle(e.location_tag_id, photo)

\* C9: for a photo with a capture time and coordinates the matcher assigns
\* an Event tag if and only if the photo's time lies in the event's
\* [start, end] window, both bounds included, the event's Landmark exists
\* with coordinates and its geofence contains the photo's point.
C9_EventAssignedIffAccepted ==
    [][IsMatchStep /\ HasTimeAndPlace(MatchedPhoto) =>
         \A e \in IdsOf("event") :
             (<<MatchedPhoto.id, e>> \in photo_tags')
                 <=> (<<MatchedPhoto.id, e>> \in photo_tags \/ Accepts(e, MatchedPhoto))]_vars

\* the photo taken on the window's first millisecond inside Museum gets E
C9_Witness ==
    /\ matches = 1
    /\ matchRequest.photoId = 1
    /\ matchRequest.had = {}
    /\ \E e \in IdsOf("event") :
         /\ TagRow(TagDb, e).name = "E"
         /\ e \in SeqToSet(matchResult.matchedTags)
         /\ <<1, e>> \in photo_tags

\* how many parent steps lead from a tag up to root; NULL when none do
RECURSIVE DepthUnder(_, _, _)
DepthUnder(root, id, fuel) ==
    IF id = root THEN 0
    ELSE IF fuel = 0 \/ id \notin TagIds THEN NULL
    ELSE LET up == TagRow(TagDb, id).parent_id
         IN  IF up = NULL THEN NULL
             ELSE LET d == DepthUnder(root, up, fuel - 1)
                  IN  IF d = NULL THEN NULL ELSE d + 1

\* the Landmarks strictly below root whose circle contains the photo's point
ContainingBelow(root, photo) ==
    {d \in IdsOf("location") :
        /\ d # root
        /\ DepthUnder(root, d, MaxTags) # NULL
        /\ InCircle(d, photo)}

\* the Landmarks C10 allows for an accepted event linked to root
MostSpecific(root, photo) ==
    IF ContainingBelow(root, photo) = {} THEN {root}
    ELSE {d \in ContainingBelow(root, photo) :
             \A x \in ContainingBelow(root, photo) :
                 DepthUnder(root, x, MaxTags) <= DepthUnder(root, d, MaxTags)}

LandmarkOf(eventId) ==
    (CHOOSE e \in tag_events : e.tag_id = eventId).location_tag_id

\* C10: for every accepted event the matcher assigns exactly one Landmark of
\* the linked Landmark's subtree: the deepest strict descendant whose
\* geofence contains the photo's point, or the linked Landmark itself when
\* no strict descendant contains it.
C10_DeepestContainingLandmark ==
    [][IsMatchStep /\ HasTimeAndPlace(MatchedPhoto) /\ matchRequest'.had = {} =>
         LET photo    == MatchedPhoto
             accepted == {e \in IdsOf("event") : Accepts(e, photo)}
             assigned == {t \in IdsOf("location") : <<photo.id, t>> \in photo_tags'}
         IN  /\ \A e \in accepted :
                   \E t \in MostSpecific(LandmarkOf(e), photo) : t \in assigned
             /\ \A t \in assigned :
                   \E e \in accepted : t \in MostSpecific(LandmarkOf(e), photo)]_vars

\* the tags at or below root, whatever lies on the path
SubtreeOf(root) == {t \in TagIds : DepthUnder(root, t, MaxTags) # NULL}

\* C11: the Landmarks considered in descendant resolution are every
\* Landmark-category tag of the subtree rooted at the event's linked
\* Landmark, at any depth, whatever the categories of the tags between.
C11_AllLandmarksOfSubtree ==
    \A e \in tag_events :
        (e.location_tag_id # NULL /\ e.location_tag_id \in IdsOf("location")) =>
            {d.id : d \in SeqToSet(getLocationTagDescendants(TagDb, e.location_tag_id))}
                = {t \in SubtreeOf(e.location_tag_id) :
                      t = e.location_tag_id \/ t \in IdsOf("location")}

C13_ContainsPointExactly ==
    geoPc = "evaluated" =>
        (geoOut <=>
            /\ geoLandmark.lat # NULL
            /\ geoLandmark.lng # NULL
            /\ geoLandmark.radius # NULL
            /\ geoLandmark.radius > 0
            /\ Abs(geoPoint.lat - geoLandmark.lat) <= geoLandmark.radius)

\* a point exactly 100 m from the centre of a circle of 100 m is contained
C13_Witness ==
    /\ geoPc = "evaluated"
    /\ geoLandmark = [lat |-> 1000, lng |-> 20, radius |-> 100]
    /\ geoPoint = [lat |-> 1100, lng |-> 20]
    /\ geoOut


\* the tag rows and the assignments, as deleteTag takes them
TagsAndLinks == [tdb |-> TagDb, photo_tags |-> photo_tags]

\* C14: deleteTag(id) removes exactly the tag rows of id and its descendants
\* (of any category) and every photo-tag assignment that references one of
\* them; every other tag row and every other assignment stays as it was.
C14_DeleteRemovesExactlySubtree ==
    \A id \in TagIds :
        LET after == deleteTag(TagsAndLinks, id)
        IN  /\ after.tdb.tags = {t \in tags : t.id \notin SubtreeOf(id)}
            /\ after.photo_tags = {l \in photo_tags : l[2] \notin SubtreeOf(id)}

\* C15: the parent relation on tags is acyclic: no tag is reached again by
\* following parent references upward from its own parent.
C15_ParentRelationAcyclic ==
    \A t \in tags :
        t.parent_id # NULL => DepthUnder(t.id, t.parent_id, MaxTags) = NULL

\* C16: whatever tag operation is taken, a tag id that exists before and
\* after it has the category it had before (ids are never reused, so this is
\* the category the tag was created with).
C16_CategoryImmutable ==
    [][\A t \in tags : \A u \in tags' :
           t.id = u.id => u.category = t.category]_vars

\* the category of the tag with this id; NULL when there is no such tag
CategoryOf(id) == IF id \in TagIds THEN TagRow(TagDb, id).category ELSE NULL

\* C17: a tag_faces, tag_events or tag_locations row exists for a tag id only
\* if that tag's category is face, event or location respectively.
C17_ExtensionOfOwnCategoryOnly ==
    /\ \A f \in tag_faces : CategoryOf(f.tag_id) = "face"
    /\ \A e \in tag_events : CategoryOf(e.tag_id) = "event"
    /\ \A l \in tag_locations : CategoryOf(l.tag_id) = "location"

\* a step of upsertPhoto or batchInsertPhotos over catalogued files
IsReingestStep == upserts' = upserts + 1

\* C18: re-ingesting a catalogued (directory, filename) through upsertPhoto
\* or batchInsertPhotos updates the row in place: after the call the path has
\* a row with the same id, note and like flag, and the tag assignments are
\* the ones from before the call.
C18_ReingestKeepsIdentity ==
    [][IsReingestStep =>
         /\ \A r \in photos :
                \E u \in photos' :
                    /\ SamePath(u, r.directory, r.filename)
                    /\ u.id = r.id
                    /\ u.remark = r.remark
                    /\ u.like = r.like
         /\ photo_tags' = photo_tags]_vars

\* the walker of scan s, asked to skip scanned directories, is at subdirectory
\* sub (not special, not a link, not visited) and this step passes over it
\* without reading it
PrunesSubdir(s, sub) ==
    /\ running = s
    /\ scan[s].pc = "walk"
    /\ scan[s].skipScanned
    /\ Len(scan[s].stack) > 0
    /\ LET f     == scan[s].stack[Len(scan[s].stack)]
           items == readdirSync(f.real)
       IN  /\ f.i <= Len(items)
           /\ lstatSync(items[f.i]) = "dir"
           /\ ~IsSpecialDir(items[f.i].name)
           /\ items[f.i].to \notin scan[s].visitedDirs
           /\ sub = Append(f.rel, items[f.i].name)
           /\ scan' = [scan EXCEPT ![s] = Advance(scan[s])]

SubdirPaths == {<<"a">>, <<"a", "b">>}

\* C19: with skipScanned = true the walker prunes a subdirectory only when
\* the catalog records it as scanned (its last_scan_time is non-null); a
\* subdirectory that is merely registered is descended into.
C19_PrunesOnlyScannedSubdirs ==
    [][\A s \in Callers, sub \in SubdirPaths :
          PrunesSubdir(s, sub) => isDirectoryScanned(directories, sub)]_vars

\* a step in which a read path was called
IsReadStep == readsDone' = readsDone + 1

\* C20: a read path returns an asset only if the file it names is on disk at
\* the time of the query, whatever deletions, restorations and queries came
\* before, and the call leaves every stored row as it was.
C20_ReturnsOnlyExistingFiles ==
    [][IsReadStep =>
         /\ \A a \in readOut'.assets : a.fullPath \in disk
         /\ photos' = photos]_vars

\* the lookups that have been started and not answered
InFlightLookups == {i \in 1..Len(lookups) : lookups[i].status = "pending"}

\* C21: however many getCityName calls are pending, the lookups are issued
\* one at a time, in the order the requests were enqueued, and each starts at
\* least geocodingInterval after the start of the one before.
C21_OneLookupAtATimeInOrder ==
    /\ Cardinality(InFlightLookups) <= 1
    /\ Cardinality({l \in loops : l.pc = "fetch"}) <= 1
    /\ \A i \in 1..(Len(lookups) - 1) :
          /\ lookups[i].req <= lookups[i + 1].req
          /\ lookups[i + 1].at - lookups[i].at >= geocodingInterval

\* two requests waited together; the second lookup started exactly one
\* interval after the first, while a third request is still in the queue
C21_Witness ==
    /\ Len(lookups) = 2
    /\ lookups[1].req = 1 /\ lookups[2].req = 2
    /\ lookups[2].at - lookups[1].at = geocodingInterval
    /\ Len(geocodeQueue) = 1
    /\ \E l \in loops : l.pc = "fetch"

\* What holds of the lookups answered 429: the request is the next to be
\* looked up, no sooner than three intervals after the answer, and until then
\* it is the head of the queue.
ThrottledRetriedFirst ==
    \A i \in 1..Len(lookups) :
        lookups[i].status = "429" =>
            IF i < Len(lookups)
            THEN /\ lookups[i + 1].req = lookups[i].req
                 /\ lookups[i + 1].at >= lookups[i].answered + 3 * geocodingInterval
            ELSE /\ Len(geocodeQueue) > 0
                 /\ Head(geocodeQueue).id = lookups[i].req

\* C22: a request answered 429 goes back to the head of the queue, the next
\* lookup starts no sooner than 3 x geocodingInterval later and is the retry
\* of that request, before any request enqueued later; no request is dropped:
\* every getCityName promise is resolved in the end.
C22_ThrottledRequestRetried ==
    /\ []ThrottledRetriedFirst
    /\ \A id \in 1..MaxGeoRequests : (geoRequests >= id) ~> (id \in resolved)

\* request 1 was answered 429 while request 2 waited; it was looked up again
\* and resolved before request 2 was looked up
C22_Witness ==
    /\ Len(lookups) = 3
    /\ lookups[1].req = 1 /\ lookups[1].status = "429"
    /\ lookups[2].req = 1 /\ lookups[2].status = "ok"
    /\ lookups[2].at = lookups[1].answered + ThrottleWait
    /\ lookups[3].req = 2
    /\ 1 \in resolved

\* C26: under overlapping 'get-city-name' calls with uncached keys, the
\* starts of any two external lookups are at least geocodingInterval apart.
C26_HandlerLookupsSpaced ==
    \A i \in 1..Len(lookups) : \A j \in 1..Len(lookups) :
        i < j => lookups[j].at - lookups[i].at >= geocodingInterval

\* C23: extractMetadata never rejects and always resolves, to a record of
\* time, lat and lng; to the all-null record, and without the parser being
\* invoked, for gif, bmp, webp and png files; to the all-null record when the
\* parser throws and when it has not finished after 30 s.
C23_ExtractAlwaysResolves ==
    /\ [](exPc # "rejected")
    /\ <>(exPc = "resolved")
    /\ [](exPc = "resolved" =>
            /\ DOMAIN exOut = {"time", "lat", "lng"}
            /\ Ext(exFile) \in {"gif", "bmp", "webp", "png"} =>
                   exOut = NoMeta /\ ~exParserCalled
            /\ (exParserCalled /\ exParser.outcome = "throws") => exOut = NoMeta
            /\ (exParserCalled /\ (exParser.outcome = "never"
                                    \/ exParser.at > ExifTimeout)) =>
                   exOut = NoMeta /\ exElapsed = ExifTimeout)

\* a jpg with metadata whose parser never settles: resolved by the timer
C23_Witness ==
    /\ exFile = "p1.jpg"
    /\ exParser.outcome = "never"
    /\ exPc = "resolved"
    /\ exElapsed = ExifTimeout
    /\ exOut = NoMeta

NoticesOfAttempt ==
    LET sc == scan["menu"]
    IN  /\ sc.pc = "idle" => sc.sent = <<>>
        /\ sc.pc \in InFlight => sc.sent = <<"scan-started">>
        /\ sc.pc = "returned" => sc.sent = <<"scan-started", "scan-completed">>
        /\ sc.pc = "rejected" =>
               /\ sc.sent = <<"scan-started", "scan-error">>
               /\ sc.batchFailAt > 0

\* C24: a scan attempt started by handleSetPhotoDirectory sends
\* 'scan-started' once and then exactly one of 'scan-completed' and
\* 'scan-error'; a 'scan-error' is never the result of a per-file failure
\* (only of the batch write failing).
C24_OneTerminalNotice ==
    /\ []NoticesOfAttempt
    /\ (scan["menu"].pc \in InFlight) ~> (Len(scan["menu"].sent) = 2)

\* an attempt with a per-file failure has completed
C24_Witness ==
    /\ scan["menu"].failed # {}
    /\ scan["menu"].sent = <<"scan-started", "scan-completed">>

\* the step is the callback of the tag selector
IsSelectStep == linksMade' = linksMade + 1

\* the row of photos' with the id of row r
RowAfter(r) == CHOOSE x \in photos' : x.id = r.id

\* C25: picking a tag changes a photo only when the photo has neither lat
\* nor lng and the tag is a landmark with both coordinates, which the photo
\* then has; a photo with a coordinate is not modified, and no column other
\* than lat and lng changes.
C25_LandmarkOnlyFillsMissing ==
    [][IsSelectStep =>
         /\ {x.id : x \in photos'} = {r.id : r \in photos}
         /\ Cardinality(photos') = Cardinality(photos)
         /\ \A r \in photos :
              /\ RowAfter(r) = [r EXCEPT !.lat = RowAfter(r).lat,
                                         !.lng = RowAfter(r).lng]
              /\ (r.lat # NULL \/ r.lng # NULL) => RowAfter(r) = r
              /\ RowAfter(r) # r =>
                    \E l \in tag_locations :
                        /\ l.lat # NULL /\ l.lng # NULL
                        /\ <<r.id, l.tag_id>> \in photo_tags'
                        /\ RowAfter(r).lat = l.lat /\ RowAfter(r).lng = l.lng]_vars

\* the photo without coordinates has taken a landmark's, and kept its remark
C25_Witness ==
    \E r \in photos :
        /\ r.id = 1
        /\ r.lat = 10000 /\ r.lng = 20
        /\ r.remark = "note" /\ r.like = 1

\* the walked files of an activation that are photos
WalkedPhotos(sc) ==
    {i \in 1..Len(sc.fileList) : isPhotoExtension(sc.fileList[i].filename)}

OwnCoordinates(i) == locRaw[i].lat # NULL /\ locRaw[i].lng # NULL

\* the asset's coordinates after inference are those the parser found in a
\* photo of the pass
CopiedFromOwn(after) ==
    \E j \in 1..Len(locRaw) :
        /\ OwnCoordinates(j)
        /\ after.lat = locRaw[j].lat
        /\ after.lng = locRaw[j].lng

\* C28: in a pass, inference leaves alone every photo in whose metadata the
\* parser found coordinates, and the coordinates of every inferred asset
\* are those the parser found in a photo of the pass.
C28_OwnCoordinatesNeverInferred ==
    locPc = "inferred" =>
        /\ \A i \in 1..Len(locRaw) :
             /\ OwnCoordinates(i) => locOut.photos[i] = LocPhotoList[i]
             /\ locOut.photos[i].geoSource = "inferred" => CopiedFromOwn(locOut.photos[i])
        /\ locOut.videos[1].geoSource = "inferred" => CopiedFromOwn(locOut.videos[1])

\* a candidate with a capture time, a latitude and a longitude
HasTimeAndCoordinates(c) == c.time # NULL /\ c.lat # NULL /\ c.lng # NULL

\* C30: the locator finds a photo exactly when the target has a time and a
\* candidate has a capture time, a latitude and a longitude, whatever their
\* values (0 included), and the pass keeps the coordinates of such a photo.
C30_ZeroIsACoordinate ==
    /\ (locPc = "nearest" /\ locTarget # NULL) =>
          (locNearest.found <=>
              \E i \in 1..Len(locRaw) : HasTimeAndCoordinates(locRaw[i]))
    /\ locPc = "inferred" =>
          \A i \in 1..Len(locRaw) :
              OwnCoordinates(i) =>
                  /\ locOut.photos[i].lat = locRaw[i].lat
                  /\ locOut.photos[i].lng = locRaw[i].lng

\* the number of nodes of a forest that hold the tag id
RECURSIVE Occurrences(_, _)
Occurrences(forest, id) ==
    IF forest = {} THEN 0
    ELSE LET n == CHOOSE x \in forest : TRUE
         IN  (IF n.tag.id = id THEN 1 ELSE 0)
                + Occurrences(n.children, id)
                + Occurrences(forest \ {n}, id)

\* the step reads a forest
IsForestStep == treeOut'.reads = treeOut.reads + 1

\* C29: the forest returned for a category holds every tag of the category
\* exactly once (and no other tag), whatever the category of its parent
\* (stated for tags whose parent relation has no cycle, see C15).
C29_ForestHoldsWholeCategory ==
    [][(IsForestStep /\ C15_ParentRelationAcyclic) =>
         \A t \in tags :
             Occurrences(treeOut'.forest, t.id)
                 = IF t.category = treeOut'.category THEN 1 ELSE 0]_vars

====
